---- MODULE Spec2Model ----
(***************************************************************************)
(* WebScreamer: deck compiler (Core/topology.js), simulation memory        *)
(* (Core/matrix.js) and theta-method solver (core/solver.js).              *)
(*                                                                         *)
(* JavaScript numbers are IEEE-754 doubles.  They are modelled as decimal  *)
(* floating point numbers m * 10^e with a mantissa of MantDigits digits,   *)
(* rounded to nearest after every operation, together with NaN and the two *)
(* infinities.  Every arithmetic expression of the source is evaluated     *)
(* operation by operation in the order the source evaluates it.            *)
(***************************************************************************)
EXTENDS Integers, Sequences, FiniteSets, TLC

\* Number of decimal digits kept in a mantissa.
MantDigits == 3

(***************************************************************************)
(* Floating point numbers                                                  *)
(***************************************************************************)
RECURSIVE Pow10(_)
Pow10(n) == IF n <= 0 THEN 1 ELSE 10 * Pow10(n - 1)

MantLo == Pow10(MantDigits - 1)
MantHi == Pow10(MantDigits)

IAbs(x) == IF x < 0 THEN -x ELSE x
ISgn(x) == IF x < 0 THEN -1 ELSE IF x > 0 THEN 1 ELSE 0

\* x / 10 rounded to nearest, halves away from zero
RoundDiv10(x) == ISgn(x) * ((IAbs(x) + 5) \div 10)

NaN == [k |-> "nan", m |-> 0, e |-> 0]
PosInf == [k |-> "inf", m |-> 1, e |-> 0]
NegInf == [k |-> "inf", m |-> -1, e |-> 0]
Zero == [k |-> "num", m |-> 0, e |-> 0]

\* The number m * 10^e brought to MantLo <= |m| < MantHi (0 is [m = 0, e = 0]).
RECURSIVE Norm(_, _)
Norm(m, e) ==
    IF m = 0 THEN Zero
    ELSE IF IAbs(m) >= MantHi THEN Norm(RoundDiv10(m), e + 1)
    ELSE IF IAbs(m) < MantLo THEN Norm(m * 10, e - 1)
    ELSE [k |-> "num", m |-> m, e |-> e]

\* A numeric literal of the source or of a deck: m * 10^e.
Lit(m, e) == Norm(m, e)
FromInt(i) == Norm(i, 0)

IsNaN(x) == x.k = "nan"
IsFinite(x) == x.k = "num"
FSign(x) == ISgn(x.m)

FNeg(x) == [x EXCEPT !.m = -x.m]
FAbs(x) == [x EXCEPT !.m = IAbs(x.m)]

\* x + y
FAdd(x, y) ==
    IF IsNaN(x) \/ IsNaN(y) THEN NaN
    ELSE IF x.k = "inf" /\ y.k = "inf" THEN (IF x.m = y.m THEN x ELSE NaN)
    ELSE IF x.k = "inf" THEN x
    ELSE IF y.k = "inf" THEN y
    ELSE IF x.m = 0 THEN y
    ELSE IF y.m = 0 THEN x
    ELSE LET hi == IF x.e >= y.e THEN x ELSE y
             lo == IF x.e >= y.e THEN y ELSE x
             d  == hi.e - lo.e
         IN  IF d > MantDigits + 1 THEN hi
             ELSE Norm(hi.m * Pow10(d) + lo.m, lo.e)

FSub(x, y) == FAdd(x, FNeg(y))

\* x * y
FMul(x, y) ==
    IF IsNaN(x) \/ IsNaN(y) THEN NaN
    ELSE IF x.k = "inf" \/ y.k = "inf"
         THEN (IF x.m = 0 \/ y.m = 0 THEN NaN
               ELSE IF ISgn(x.m) * ISgn(y.m) > 0 THEN PosInf ELSE NegInf)
    ELSE Norm(x.m * y.m, x.e + y.e)

\* x / y
FDiv(x, y) ==
    IF IsNaN(x) \/ IsNaN(y) THEN NaN
    ELSE IF x.k = "inf"
         THEN (IF y.k = "inf" THEN NaN
               ELSE IF ISgn(x.m) * (IF y.m < 0 THEN -1 ELSE 1) > 0 THEN PosInf ELSE NegInf)
    ELSE IF y.k = "inf" THEN Zero
    ELSE IF y.m = 0
         THEN (IF x.m = 0 THEN NaN ELSE IF x.m > 0 THEN PosInf ELSE NegInf)
    ELSE LET num == IAbs(x.m) * MantHi * 10
             q   == (2 * num + IAbs(y.m)) \div (2 * IAbs(y.m))
         IN  Norm(ISgn(x.m) * ISgn(y.m) * q, x.e - y.e - MantDigits - 1)

\* x < y (false when either is NaN)
FLess(x, y) ==
    IF IsNaN(x) \/ IsNaN(y) THEN FALSE
    ELSE IF x.k = "inf" THEN x.m < 0 /\ ~(y.k = "inf" /\ y.m < 0)
    ELSE IF y.k = "inf" THEN y.m > 0
    ELSE LET sx == ISgn(x.m)
             sy == ISgn(y.m)
         IN  IF sx # sy THEN sx < sy
             ELSE IF sx = 0 THEN FALSE
             ELSE IF x.e # y.e THEN (IF sx > 0 THEN x.e < y.e ELSE x.e > y.e)
             ELSE x.m < y.m

\* x === y
FEq(x, y) == ~IsNaN(x) /\ ~IsNaN(y) /\ x = y

\* undefined (a missing token, an unset property)
Undef == [k |-> "undef", m |-> 0, e |-> 0]

\* Math.round(x) for the finite values, NaN and the infinities
FRound(x) ==
    IF x.k # "num" THEN x
    ELSE IF x.e >= 0 THEN x
    ELSE IF -x.e > MantDigits THEN Zero
    ELSE LET p == Pow10(-x.e)
             q == (2 * x.m + p) \div (2 * p)
         IN  Norm(q, 0)

\* Math.max(a, b)
FMax(a, b) == IF IsNaN(a) \/ IsNaN(b) THEN NaN ELSE IF FLess(a, b) THEN b ELSE a

\* The integer a finite integral number stands for
ToInt(x) == IF x.e >= 0 THEN x.m * Pow10(x.e) ELSE x.m \div Pow10(-x.e)

(***************************************************************************)
(* Deck text.  A line is the sequence of its whitespace-separated tokens   *)
(* (line.trim().split(/\s+/)); the empty sequence is a blank line.         *)
(***************************************************************************)
\* parts[i] of the source (0-based); "" stands for undefined
Part(parts, i) == IF i + 1 <= Len(parts) THEN parts[i + 1] ELSE ""

StartsWith(s, p) == Len(s) >= Len(p) /\ SubSeq(s, 1, Len(p)) = p

\* String.prototype.toUpperCase on the tokens of the decks
ToUpperCase(tok) ==
    CASE tok = "Branch" -> "BRANCH"
      [] tok = "Topbranch" -> "TOPBRANCH"
      [] tok = "Endbranch" -> "ENDBRANCH"
      [] tok = "RCGround" -> "RCGROUND"
      [] tok = "RLSeries" -> "RLSERIES"
      [] tok = "TRLine" -> "TRLINE"
      [] tok = "Instant" -> "INSTANT"
      [] tok = "Exponential" -> "EXPONENTIAL"
      [] tok = "Time-step" -> "TIME-STEP"
      [] tok = "End-time" -> "END-TIME"
      [] tok = "Initial" -> "INITIAL"
      [] OTHER -> tok

\* parseFloat on the tokens of the decks; any token that does not begin with
\* a number, and undefined, parse to NaN
ParseFloat(tok) ==
    CASE tok = "0" -> Zero
      [] tok = "0.0" -> Zero
      [] tok = "1" -> FromInt(1)
      [] tok = "2" -> FromInt(2)
      [] tok = "3" -> FromInt(3)
      [] tok = "4" -> FromInt(4)
      [] tok = "5" -> FromInt(5)
      [] tok = "50" -> FromInt(50)
      [] tok = "100" -> FromInt(100)
      [] tok = "0.5" -> Lit(5, -1)
      [] tok = "5e-10" -> Lit(5, -10)
      [] tok = "1e-9" -> Lit(1, -9)
      [] tok = "2e-9" -> Lit(2, -9)
      [] tok = "3e-9" -> Lit(3, -9)
      [] tok = "4e-9" -> Lit(4, -9)
      [] tok = "1e-8" -> Lit(1, -8)
      [] tok = "1e6" -> Lit(1, 6)
      [] tok = "1e9" -> Lit(1, 9)
      [] tok = "1e20" -> Lit(1, 20)
      [] tok = "6e-6" -> Lit(6, -6)
      [] tok = "5ohm" -> FromInt(5)
      [] OTHER -> NaN

(***************************************************************************)
(* Core/topology.js                                                        *)
(***************************************************************************)
RC_GROUND == 0
RL_SERIES == 1

NoSwitchParams == [rOpen |-> Undef, rClose |-> Undef, tSwitch |-> Undef, kDecay |-> Undef]

\* A node object literal; the properties a literal does not set are undefined.
Node(id, type, R, L, G, C, isPhantom) ==
    [id |-> id, type |-> type, R |-> R, L |-> L, G |-> G, C |-> C,
     isPhantom |-> isPhantom, isSwitch |-> FALSE, switchType |-> "",
     switchParams |-> NoSwitchParams, initialV |-> Undef]

SwitchNode(id, R, type, params) ==
    [Node(id, RL_SERIES, R, Lit(1, -9), Zero, Zero, FALSE)
        EXCEPT !.isSwitch = TRUE, !.switchType = type, !.switchParams = params]

\* combineParallel of the Topbranch merge
combineParallel(a, b) ==
    IF FEq(a, Zero) \/ FEq(b, Zero) THEN Zero
    ELSE IF ~IsFinite(a) THEN b
    ELSE IF ~IsFinite(b) THEN a
    ELSE FDiv(FromInt(1), FAdd(FDiv(FromInt(1), a), FDiv(FromInt(1), b)))

\* null
Null == -1

\* nodes[i] of the source (0-based)
NodeAt(ns, i) == ns[i + 1]

\* The state of a CircuitCompiler right after its constructor.
NewCompiler ==
    [nodes |-> <<>>, outputRequests |-> <<>>, dt |-> Lit(1, -9), t_end |-> Lit(100, -9),
     globalResolution |-> Lit(1, -9), trLineResolution |-> Undef, blocks |-> <<>>]

\* The resets and the locals at the head of compile().
CompileEntry(c) ==
    [nodes |-> <<>>, outputRequests |-> <<>>, blocks |-> <<>>,
     dt |-> c.dt, t_end |-> c.t_end, globalResolution |-> c.globalResolution,
     trLineResolution |-> c.trLineResolution,
     usedLabels |-> {}, nodeId |-> 0, mainBranchStarted |-> FALSE,
     pendingTopbranches |-> <<>>, activeTopbranchAnchor |-> Null,
     outcome |-> "ok", message |-> ""]

Throw(s, msg) == [s EXCEPT !.outcome = "throw", !.message = msg]

\* if (!line || line.startsWith('!')) continue
SkippedLine(parts) == parts = <<>> \/ StartsWith(parts[1], "!")

\* cmd === 'BRANCH'
BranchLine(s) ==
    IF ~s.mainBranchStarted THEN [s EXCEPT !.mainBranchStarted = TRUE]
    ELSE IF Len(s.pendingTopbranches) > 0
         THEN [s EXCEPT !.activeTopbranchAnchor = Head(s.pendingTopbranches),
                        !.pendingTopbranches = Tail(s.pendingTopbranches)]
    ELSE s

\* The index of the last real series element, or -1
LastRealSeries(ns) ==
    LET found == {i \in 0 .. Len(ns) - 1 :
                    NodeAt(ns, i).type = RL_SERIES /\ ~NodeAt(ns, i).isPhantom}
    IN  IF found = {} THEN -1 ELSE CHOOSE i \in found : \A j \in found : j <= i

\* cmd === 'TOPBRANCH'
TopbranchLine(s) ==
    LET anchorIndex == LastRealSeries(s.nodes)
    IN  IF anchorIndex = -1
        THEN Throw(s, "Topbranch requires a previous series element to attach to.")
        ELSE [s EXCEPT !.pendingTopbranches = Append(@, anchorIndex)]

\* activeTopbranchAnchor !== null and the line is an RCG
MergeRCG(s, parts) ==
    LET anchorNode == NodeAt(s.nodes, s.activeTopbranchAnchor)
        branchR == ParseFloat(Part(parts, 1))
        branchC == IF Len(parts) > 2 THEN ParseFloat(Part(parts, 2)) ELSE Zero
        merged == [anchorNode EXCEPT !.R = combineParallel(anchorNode.R, branchR),
                                     !.L = combineParallel(anchorNode.L, Zero),
                                     !.C = FAdd(anchorNode.C, branchC)]
    IN  [s EXCEPT !.nodes[s.activeTopbranchAnchor + 1] = merged,
                  !.activeTopbranchAnchor = Null]

\* activeTopbranchAnchor !== null and the line is an RLS
MergeRLS(s, parts) ==
    LET anchorNode == NodeAt(s.nodes, s.activeTopbranchAnchor)
        branchR == ParseFloat(Part(parts, 1))
        branchL == IF Len(parts) > 2 THEN ParseFloat(Part(parts, 2)) ELSE Zero
        merged == [anchorNode EXCEPT !.R = combineParallel(anchorNode.R, branchR),
                                     !.L = combineParallel(anchorNode.L, branchL)]
    IN  [s EXCEPT !.nodes[s.activeTopbranchAnchor + 1] = merged,
                  !.activeTopbranchAnchor = Null]

\* The nodes of an RCG line without the phantom series node
RCGNodesNoPhantom(s, parts) ==
    LET R == ParseFloat(Part(parts, 1))
        C == IF Len(parts) > 2 THEN ParseFloat(Part(parts, 2)) ELSE Zero
        G == IF FEq(R, Zero) THEN Lit(1, 9) ELSE FDiv(FromInt(1), R)
    IN  << Node(s.nodeId, RC_GROUND, Zero, Zero, G, C, FALSE) >>

\* The nodes an RCG line pushes
RCGNodes(s, parts) ==
    LET R == ParseFloat(Part(parts, 1))
        C == IF Len(parts) > 2 THEN ParseFloat(Part(parts, 2)) ELSE Zero
        G == IF FEq(R, Zero) THEN Lit(1, 9) ELSE FDiv(FromInt(1), R)
    IN  << Node(s.nodeId, RC_GROUND, Zero, Zero, G, C, FALSE),
           Node(s.nodeId + 1, RL_SERIES, Lit(1, -7), Lit(1, -11), Zero, Zero, TRUE) >>

\* The nodes an RLS line pushes
RLSNodes(s, parts) ==
    LET R == ParseFloat(Part(parts, 1))
        L == IF Len(parts) > 2 THEN ParseFloat(Part(parts, 2)) ELSE Zero
    IN  << Node(s.nodeId, RC_GROUND, Zero, Zero, Zero, Zero, TRUE),
           Node(s.nodeId + 1, RL_SERIES, R, L, Zero, Zero, FALSE) >>

\* The switchParams of a SWITCH line of a known type
SwitchParamsOf(parts, type) ==
    IF type = "INSTANT"
    THEN [rOpen |-> ParseFloat(Part(parts, 2)), rClose |-> ParseFloat(Part(parts, 3)),
          tSwitch |-> ParseFloat(Part(parts, 4)), kDecay |-> Undef]
    ELSE [rOpen |-> ParseFloat(Part(parts, 2)), rClose |-> ParseFloat(Part(parts, 3)),
          kDecay |-> ParseFloat(Part(parts, 4)), tSwitch |-> ParseFloat(Part(parts, 5))]

\* The nodes a SWITCH line of a known type pushes
SwitchNodes(s, parts, type) ==
    LET p == SwitchParamsOf(parts, type)
        initialR == IF type = "EXPONENTIAL" THEN FAdd(p.rOpen, p.rClose) ELSE p.rOpen
    IN  << Node(s.nodeId, RC_GROUND, Zero, Zero, Zero, Zero, TRUE),
           SwitchNode(s.nodeId + 1, initialR, type, p) >>

\* const segments of a TRL line
TRLSegments(s, parts) ==
    LET delay == ParseFloat(Part(parts, 2))
        resolution ==
            IF Len(parts) > 4 /\ ~IsNaN(ParseFloat(Part(parts, 4)))
            THEN ParseFloat(Part(parts, 4))
            ELSE IF s.trLineResolution # Undef THEN s.trLineResolution
            ELSE FDiv(s.globalResolution, FromInt(2))
    IN  FMax(FromInt(1), FRound(FDiv(delay, resolution)))

\* The four nodes of segment i of a TRL line, pushed with ids from id0
TRLSegmentNodes(id0, L_seg, C_seg) ==
    << Node(id0, RC_GROUND, Zero, Zero, Zero, C_seg, FALSE),
       Node(id0 + 1, RL_SERIES, Lit(1, -7), Zero, Zero, Zero, TRUE),
       Node(id0 + 2, RC_GROUND, Zero, Zero, Lit(1, -9), Zero, TRUE),
       Node(id0 + 3, RL_SERIES, Zero, L_seg, Zero, Zero, FALSE) >>

RECURSIVE TRLLoop(_, _, _, _, _)
TRLLoop(i, count, id0, L_seg, C_seg) ==
    IF i >= count THEN <<>>
    ELSE TRLSegmentNodes(id0 + 4 * i, L_seg, C_seg) \o TRLLoop(i + 1, count, id0, L_seg, C_seg)

\* The nodes a TRL line pushes when its loop ends (segments is not Infinity)
TRLNodes(s, parts) ==
    LET delay == ParseFloat(Part(parts, 2))
        Z == ParseFloat(Part(parts, 3))
        segments == TRLSegments(s, parts)
        L_seg == FDiv(FMul(Z, delay), segments)
        C_seg == FDiv(FDiv(delay, Z), segments)
        count == IF IsNaN(segments) THEN 0 ELSE ToInt(segments)
    IN  TRLLoop(0, count, s.nodeId, L_seg, C_seg)

\* this.nodes.push(...) of an element line, then this.blocks.push(...)
PushBlock(s, type, pushed) ==
    [s EXCEPT !.nodes = @ \o pushed,
              !.nodeId = @ + Len(pushed),
              !.blocks = Append(@, [type |-> type, startNode |-> s.nodeId,
                                    endNode |-> s.nodeId + Len(pushed) - 1])]

\* INITIAL on a TRL block: every node of the block without an initialV gets val
InitialTRL(ns, b, val) ==
    [j \in 1 .. Len(ns) |->
        IF b.startNode <= j - 1 /\ j - 1 <= b.endNode /\ ns[j].initialV = Undef
        THEN [ns[j] EXCEPT !.initialV = val] ELSE ns[j]]

\* The index the downward search of INITIAL stops at, or -1
LastRealGround(ns, b) ==
    LET found == {i \in b.startNode .. b.endNode :
                    NodeAt(ns, i).type = RC_GROUND /\ ~NodeAt(ns, i).isPhantom}
    IN  IF found = {} THEN -1 ELSE CHOOSE i \in found : \A j \in found : j <= i

\* The while loop over the phantoms left out
PhantomRunNone(ns, k) == k

\* The end (exclusive) of the while loop over the phantoms that follow node i
RECURSIVE PhantomRunEnd(_, _)
PhantomRunEnd(ns, k) ==
    IF k < Len(ns) /\ NodeAt(ns, k).isPhantom THEN PhantomRunEnd(ns, k + 1) ELSE k

\* INITIAL on a lumped block
InitialLumped(ns, b, val) ==
    LET i == LastRealGround(ns, b)
    IN  IF i = -1 THEN ns
        ELSE [j \in 1 .. Len(ns) |->
                IF i <= j - 1 /\ j - 1 < PhantomRunEnd(ns, i + 1)
                THEN [ns[j] EXCEPT !.initialV = val] ELSE ns[j]]

\* cmd.startsWith('INITIAL')
InitialLine(s, parts) ==
    LET val == ParseFloat(Part(parts, 2))
    IN  IF s.blocks = <<>> THEN s
        ELSE LET targetBlock == s.blocks[Len(s.blocks)]
             IN  IF targetBlock.type = "TRL"
                 THEN [s EXCEPT !.nodes = InitialTRL(s.nodes, targetBlock, val)]
                 ELSE [s EXCEPT !.nodes = InitialLumped(s.nodes, targetBlock, val)]

\* probeIndex with the end of the block in place of the loop over its nodes
ProbeIndexAtEnd(s, target) ==
    IF s.blocks = <<>> THEN Len(s.nodes) - 1
    ELSE LET targetBlock == s.blocks[Len(s.blocks)]
         IN  IF StartsWith(target, "I")
             THEN (IF targetBlock.startNode > 0 THEN targetBlock.startNode - 1 ELSE 0)
             ELSE IF StartsWith(target, "V") THEN targetBlock.endNode
             ELSE Len(s.nodes) - 1

\* probeIndex of a TXT line
ProbeIndex(s, target) ==
    IF s.blocks = <<>> THEN Len(s.nodes) - 1
    ELSE LET targetBlock == s.blocks[Len(s.blocks)]
             real == {k \in targetBlock.startNode .. targetBlock.endNode :
                        ~NodeAt(s.nodes, k).isPhantom}
         IN  IF StartsWith(target, "I")
             THEN (IF targetBlock.startNode > 0 THEN targetBlock.startNode - 1 ELSE 0)
             ELSE IF StartsWith(target, "V") /\ real # {}
             THEN CHOOSE k \in real : \A j \in real : j <= k
             ELSE Len(s.nodes) - 1

\* The label with a single attempt at a suffix in place of the loop
UniqueLabelOneAttempt(usedLabels, target, uniqueLabel, counter) ==
    IF uniqueLabel \in usedLabels
    THEN target \o "_" \o ToString(counter)
    ELSE uniqueLabel

\* The label with the suffixes counted from 2
RECURSIVE UniqueLabelFromTwo(_, _, _, _)
UniqueLabelFromTwo(usedLabels, target, uniqueLabel, counter) ==
    IF uniqueLabel \in usedLabels
    THEN UniqueLabelFromTwo(usedLabels, target,
                            target \o "_" \o ToString(counter + 1), counter + 1)
    ELSE uniqueLabel

\* The while loop that makes a label unique
RECURSIVE UniqueLabel(_, _, _, _)
UniqueLabel(usedLabels, target, uniqueLabel, counter) ==
    IF uniqueLabel \in usedLabels
    THEN UniqueLabel(usedLabels, target, target \o "_" \o ToString(counter), counter + 1)
    ELSE uniqueLabel

IMax(a, b) == IF a >= b THEN a ELSE b

\* cmd.startsWith('TXT')
TxtLine(s, parts) ==
    LET target == Part(parts, 1)
    IN  IF target = "" THEN Throw(s, "TypeError")
        ELSE LET uniqueLabel == UniqueLabel(s.usedLabels, target, target, 1)
             IN  [s EXCEPT !.usedLabels = @ \cup {uniqueLabel},
                           !.outputRequests = Append(@,
                               [type |-> IF StartsWith(target, "V") THEN "voltage" ELSE "current",
                                nodeIndex |-> IMax(0, ProbeIndex(s, target)),
                                label |-> uniqueLabel])]

\* cmd.startsWith('SWITCH')
SwitchLine(s, parts) ==
    IF Part(parts, 1) = "" THEN Throw(s, "TypeError")
    ELSE LET type == ToUpperCase(Part(parts, 1))
         IN  IF type \in {"INSTANT", "EXPONENTIAL"}
             THEN PushBlock(s, "SWITCH", SwitchNodes(s, parts, type))
             ELSE Throw(s, "Unknown SWITCH type: " \o type)

\* cmd.startsWith('TRL'): the loop does not end when segments is Infinity
TRLLine(s, parts) ==
    IF TRLSegments(s, parts) = PosInf THEN [s EXCEPT !.outcome = "hang"]
    ELSE PushBlock(s, "TRL", TRLNodes(s, parts))

\* The chain of else-ifs with a final else that throws
DispatchStrict(s, parts, cmd) ==
    IF StartsWith(cmd, "TIME-STEP") THEN [s EXCEPT !.dt = ParseFloat(Part(parts, 1))]
    ELSE IF StartsWith(cmd, "END-TIME") THEN [s EXCEPT !.t_end = ParseFloat(Part(parts, 1))]
    ELSE IF StartsWith(cmd, "RESOLUTION-TIME")
         THEN [s EXCEPT !.globalResolution = ParseFloat(Part(parts, 1))]
    ELSE IF StartsWith(cmd, "TRLINE-RESOLUTION")
         THEN [s EXCEPT !.trLineResolution = ParseFloat(Part(parts, 1))]
    ELSE IF StartsWith(cmd, "RCG") THEN PushBlock(s, "RCG", RCGNodes(s, parts))
    ELSE IF StartsWith(cmd, "RLS") THEN PushBlock(s, "RLS", RLSNodes(s, parts))
    ELSE IF StartsWith(cmd, "SWITCH") THEN SwitchLine(s, parts)
    ELSE IF StartsWith(cmd, "TRL") THEN TRLLine(s, parts)
    ELSE IF StartsWith(cmd, "INITIAL") THEN InitialLine(s, parts)
    ELSE IF StartsWith(cmd, "TXT") THEN TxtLine(s, parts)
    ELSE Throw(s, "Unknown command: " \o cmd)

\* The chain of else-ifs on cmd, from TIME-STEP to TXT
Dispatch(s, parts, cmd) ==
    IF StartsWith(cmd, "TIME-STEP") THEN [s EXCEPT !.dt = ParseFloat(Part(parts, 1))]
    ELSE IF StartsWith(cmd, "END-TIME") THEN [s EXCEPT !.t_end = ParseFloat(Part(parts, 1))]
    ELSE IF StartsWith(cmd, "RESOLUTION-TIME")
         THEN [s EXCEPT !.globalResolution = ParseFloat(Part(parts, 1))]
    ELSE IF StartsWith(cmd, "TRLINE-RESOLUTION")
         THEN [s EXCEPT !.trLineResolution = ParseFloat(Part(parts, 1))]
    ELSE IF StartsWith(cmd, "RCG") THEN PushBlock(s, "RCG", RCGNodes(s, parts))
    ELSE IF StartsWith(cmd, "RLS") THEN PushBlock(s, "RLS", RLSNodes(s, parts))
    ELSE IF StartsWith(cmd, "SWITCH") THEN SwitchLine(s, parts)
    ELSE IF StartsWith(cmd, "TRL") THEN TRLLine(s, parts)
    ELSE IF StartsWith(cmd, "INITIAL") THEN InitialLine(s, parts)
    ELSE IF StartsWith(cmd, "TXT") THEN TxtLine(s, parts)
    ELSE s

\* One iteration of the loop over the lines of the deck
CompileLine(s, parts) ==
    IF SkippedLine(parts) THEN s
    ELSE LET cmd == ToUpperCase(parts[1])
         IN  IF cmd = "BRANCH" THEN BranchLine(s)
             ELSE IF cmd = "TOPBRANCH" THEN TopbranchLine(s)
             ELSE IF s.activeTopbranchAnchor # Null /\ StartsWith(cmd, "RCG")
                  THEN MergeRCG(s, parts)
             ELSE IF s.activeTopbranchAnchor # Null /\ StartsWith(cmd, "RLS")
                  THEN MergeRLS(s, parts)
             ELSE Dispatch(s, parts, cmd)

(***************************************************************************)
(* State                                                                   *)
(***************************************************************************)
VARIABLES
    pc,                     \* where the run is: "new", "lines", "returned", "thrown", "hang",
                            \* "ready" (solver constructed), "assembled" (inside step)
    nodes,                  \* this.nodes; the Solver holds the same array
    outputRequests,         \* this.outputRequests
    blocks,                 \* this.blocks
    dt, t_end,              \* this.dt, this.t_end
    globalResolution,       \* this.globalResolution
    trLineResolution,       \* this.trLineResolution
    usedLabels, nodeId,     \* locals of compile()
    mainBranchStarted, pendingTopbranches, activeTopbranchAnchor,
    message,                \* the message of the Error compile() threw
    lines                   \* the iterations of the loop so far: the tokens of the line,
                            \* its currentBlockStart, and pendingTopbranches,
                            \* activeTopbranchAnchor, blocks.length and nodes.length
                            \* as the iteration left them

compilerVars == << nodes, outputRequests, blocks, dt, t_end, globalResolution,
                   trLineResolution, usedLabels, nodeId, mainBranchStarted,
                   pendingTopbranches, activeTopbranchAnchor, message, lines >>

\* The compiler's fields and compile()'s locals as one record
Current ==
    [nodes |-> nodes, outputRequests |-> outputRequests, blocks |-> blocks,
     dt |-> dt, t_end |-> t_end, globalResolution |-> globalResolution,
     trLineResolution |-> trLineResolution, usedLabels |-> usedLabels,
     nodeId |-> nodeId, mainBranchStarted |-> mainBranchStarted,
     pendingTopbranches |-> pendingTopbranches,
     activeTopbranchAnchor |-> activeTopbranchAnchor,
     outcome |-> "ok", message |-> message]

Becomes(r) ==
    /\ nodes' = r.nodes
    /\ outputRequests' = r.outputRequests
    /\ blocks' = r.blocks
    /\ dt' = r.dt
    /\ t_end' = r.t_end
    /\ globalResolution' = r.globalResolution
    /\ trLineResolution' = r.trLineResolution
    /\ usedLabels' = r.usedLabels
    /\ nodeId' = r.nodeId
    /\ mainBranchStarted' = r.mainBranchStarted
    /\ pendingTopbranches' = r.pendingTopbranches
    /\ activeTopbranchAnchor' = r.activeTopbranchAnchor
    /\ message' = r.message

VARIABLES
    solverDt,               \* Solver.dt
    mem,                    \* Solver.mem, a SimulationMemory; V_old, I_old, V_new, I_new
                            \* are references into heap
    heap,                   \* the contents of the four Float64Array state buffers
    time,                   \* the argument of the current (or last) call of step
    steps                   \* number of calls of step so far

solverVars == << solverDt, mem, heap, time, steps >>

VARIABLES
    isRunning,              \* worker.js: let isRunning
    workerInbox,            \* the messages the page posted that self.onmessage has not
                            \* handled yet, oldest first
    timers,                 \* the runs whose setTimeout(loop, 0) callback is pending,
                            \* oldest first
    runs,                   \* the calls of runSimulation so far, each with the locals its
                            \* loop and finish closures share
    uiInbox,                \* the messages the worker posted that worker.onmessage of the
                            \* page has not handled yet, oldest first
    btnRunText,             \* btnRun.textContent
    btnRunDisabled,         \* btnRun.disabled
    btnDownloadDisabled,    \* btnDownload.disabled
    statusBox,              \* statusBox.textContent
    generatedFiles,         \* app.js: let generatedFiles (the runs whose files it holds)
    clicks                  \* number of clicks on btnRun so far

workerVars == << isRunning, workerInbox, timers, runs >>

uiVars == << uiInbox, btnRunText, btnRunDisabled, btnDownloadDisabled, statusBox,
             generatedFiles, clicks >>

vars == << pc, compilerVars, solverVars, workerVars, uiVars >>

(***************************************************************************)
(* Core/matrix.js                                                          *)
(***************************************************************************)
\* new Float64Array(n)
ZeroArray(n) == [j \in 1 .. n |-> Zero]

\* new SimulationMemory(totalNodes)
NewMemory(totalNodes) ==
    [N_nodes |-> totalNodes, matrixSize |-> totalNodes * 2,
     diag |-> ZeroArray(totalNodes * 2), upper1 |-> ZeroArray(totalNodes * 2),
     lower1 |-> ZeroArray(totalNodes * 2), upper2 |-> ZeroArray(totalNodes * 2),
     lower2 |-> ZeroArray(totalNodes * 2),
     V_old |-> "bufV1", I_old |-> "bufI1", V_new |-> "bufV2", I_new |-> "bufI2",
     b_vector |-> ZeroArray(totalNodes * 2), sparseElements |-> <<>>]

NewHeap(totalNodes) ==
    [r \in {"bufV1", "bufI1", "bufV2", "bufI2"} |-> ZeroArray(totalNodes)]

\* A swap of the voltage buffers alone
swapVoltagesOnly(m) == [m EXCEPT !.V_old = m.V_new, !.V_new = m.V_old]

swapTimeSteps(m) ==
    [m EXCEPT !.V_old = m.V_new, !.V_new = m.V_old,
              !.I_old = m.I_new, !.I_new = m.I_old]

clearMatrix(m) ==
    [m EXCEPT !.diag = ZeroArray(m.matrixSize), !.upper1 = ZeroArray(m.matrixSize),
              !.lower1 = ZeroArray(m.matrixSize), !.upper2 = ZeroArray(m.matrixSize),
              !.lower2 = ZeroArray(m.matrixSize), !.b_vector = ZeroArray(m.matrixSize),
              !.sparseElements = <<>>]

(***************************************************************************)
(* core/solver.js                                                          *)
(***************************************************************************)
THETA == Lit(55, -2)

\* if (nodes[i].initialV): undefined, 0 and NaN are falsy
Truthy(x) == x.k = "inf" \/ (x.k = "num" /\ x.m # 0)

\* V_old after the constructor's loop
SeedInitialV(ns) ==
    [j \in 1 .. Len(ns) |-> IF Truthy(ns[j].initialV) THEN ns[j].initialV ELSE Zero]

\* The update with the comparison t <= tSwitch in place of t < tSwitch
PhysicsUpdateInclusive(ns, t) ==
    [j \in 1 .. Len(ns) |->
        IF ns[j].isSwitch /\ ns[j].switchType = "INSTANT"
        THEN [ns[j] EXCEPT !.R = IF ~FLess(ns[j].switchParams.tSwitch, t)
                                 THEN ns[j].switchParams.rOpen
                                 ELSE ns[j].switchParams.rClose]
        ELSE ns[j]]

\* The physics update of step(time): the resistance of every INSTANT switch
PhysicsUpdate(ns, t) ==
    [j \in 1 .. Len(ns) |->
        IF ns[j].isSwitch /\ ns[j].switchType = "INSTANT"
        THEN [ns[j] EXCEPT !.R = IF FLess(t, ns[j].switchParams.tSwitch)
                                 THEN ns[j].switchParams.rOpen
                                 ELSE ns[j].switchParams.rClose]
        ELSE ns[j]]

\* setMatrixVal(row, col, val); rows and columns are 0-based
setMatrixVal(m, row, col, val) ==
    IF col = row THEN [m EXCEPT !.diag[row + 1] = val]
    ELSE IF col = row + 1 THEN [m EXCEPT !.upper1[row + 1] = val]
    ELSE IF col = row - 1 THEN [m EXCEPT !.lower1[row + 1] = val]
    ELSE IF col = row + 2 THEN [m EXCEPT !.upper2[row + 1] = val]
    ELSE IF col = row - 2 THEN [m EXCEPT !.lower2[row + 1] = val]
    ELSE m

setRhs(m, row, val) == [m EXCEPT !.b_vector[row + 1] = val]

\* rV and rI of node i
\* The voltage row put on the row of the current equation of an RC_GROUND node
RowVOnCurrentRow(ns, i) == 2 * i

RowV(ns, i) == IF NodeAt(ns, i).type = RC_GROUND THEN 2 * i + 1 ELSE 2 * i
RowI(ns, i) == IF NodeAt(ns, i).type = RC_GROUND THEN 2 * i ELSE 2 * i + 1

\* The <<row, col>> of the calls of setMatrixVal for node i, in call order
StencilWrites(ns, i) ==
    LET rV == RowV(ns, i)
        rI == RowI(ns, i)
    IN  << <<rI, 2 * i>>, <<rI, 2 * i + 1>> >>
        \o (IF i > 0 THEN << <<rI, 2 * i - 1>> >> ELSE <<>>)
        \o (IF i = Len(ns) - 1
            THEN << <<rV, 2 * i + 1>> >>
            ELSE << <<rV, 2 * i>>, <<rV, 2 * i + 1>>, <<rV, 2 * i + 2>> >>)

\* The calls of setMatrixVal of one assembly, nodes i .. N-1
RECURSIVE AssemblyWrites(_, _)
AssemblyWrites(ns, i) ==
    IF i >= Len(ns) THEN <<>> ELSE StencilWrites(ns, i) \o AssemblyWrites(ns, i + 1)

\* The body of the population loop for node i
PopulateNode(m, ns, hp, dtv, i) ==
    LET N == m.N_nodes
        node == NodeAt(ns, i)
        theta == THETA
        one_minus_theta == FSub(FromInt(1), theta)
        rV == RowV(ns, i)
        rI == RowI(ns, i)
        AV == FAdd(FMul(theta, node.G), FDiv(node.C, dtv))
        AI == FAdd(FMul(theta, node.R), FDiv(node.L, dtv))
        v_old == hp[m.V_old][i + 1]
        i_old == hp[m.I_old][i + 1]
        i_prev_old == IF i > 0 THEN hp[m.I_old][i] ELSE Zero
        v_next_old == IF i < N - 1 THEN hp[m.V_old][i + 2] ELSE Zero
        BV == FAdd(FMul(one_minus_theta, FSub(i_prev_old, i_old)),
                   FMul(FSub(FDiv(node.C, dtv), FMul(one_minus_theta, node.G)), v_old))
        BI == FSub(FMul(one_minus_theta, FSub(v_next_old, v_old)),
                   FMul(FSub(FDiv(node.L, dtv), FMul(one_minus_theta, node.R)), i_old))
        m1 == setMatrixVal(m, rI, 2 * i, AV)
        m2 == setMatrixVal(m1, rI, 2 * i + 1, theta)
        m3 == IF i > 0 THEN setMatrixVal(m2, rI, 2 * i - 1, FNeg(theta)) ELSE m2
        m4 == setRhs(m3, rI, BV)
    IN  IF i = N - 1
        THEN setRhs(setMatrixVal(m4, rV, 2 * i + 1, FromInt(1)), rV, Zero)
        ELSE LET m5 == setMatrixVal(m4, rV, 2 * i, theta)
                 m6 == setMatrixVal(m5, rV, 2 * i + 1, FNeg(AI))
                 m7 == setMatrixVal(m6, rV, 2 * i + 2, FNeg(theta))
             IN  setRhs(m7, rV, BI)

RECURSIVE Populate(_, _, _, _, _)
Populate(m, ns, hp, dtv, i) ==
    IF i >= m.N_nodes THEN m
    ELSE Populate(PopulateNode(m, ns, hp, dtv, i), ns, hp, dtv, i + 1)

\* clearMatrix() and the population loop of step
Assemble(m, ns, hp, dtv) == Populate(clearMatrix(m), ns, hp, dtv, 0)

\* x !== 0
NotZero(x) == ~(x.k = "num" /\ x.m = 0)

\* if (Math.abs(d) < 1e-25) d = 1e-25
FloorPivot(d) == IF FLess(FAbs(d), Lit(1, -25)) THEN Lit(1, -25) ELSE d

\* d[i] is floored (i is 0-based)
FloorAt(m, i) == [m EXCEPT !.diag[i + 1] = FloorPivot(@)]

\* Row i+1 minus f times row i, as the first if of the sweep does it
EliminateLower1(m, i, f) ==
    [m EXCEPT !.diag[i + 2] = FSub(@, FMul(f, m.upper1[i + 1])),
              !.upper1[i + 2] = FSub(@, FMul(f, m.upper2[i + 1])),
              !.b_vector[i + 2] = FSub(@, FMul(f, m.b_vector[i + 1]))]

\* Row i+2 minus f times row i, as the second if of the sweep does it
EliminateLower2(m, i, f) ==
    [m EXCEPT !.lower1[i + 3] = FSub(@, FMul(f, m.upper1[i + 1])),
              !.diag[i + 3] = FSub(@, FMul(f, m.upper2[i + 1])),
              !.b_vector[i + 3] = FSub(@, FMul(f, m.b_vector[i + 1]))]

\* if (l1[i+1] !== 0) { ... }
SweepLower1(m, i) ==
    IF NotZero(m.lower1[i + 2])
    THEN EliminateLower1(m, i, FDiv(m.lower1[i + 2], m.diag[i + 1]))
    ELSE m

\* if (i < n - 2 && l2[i+2] !== 0) { ... }
SweepLower2(m, i) ==
    IF i < m.matrixSize - 2 /\ NotZero(m.lower2[i + 3])
    THEN EliminateLower2(m, i, FDiv(m.lower2[i + 3], m.diag[i + 1]))
    ELSE m

\* Iteration i of the forward sweep (i is 0-based)
ForwardStep(m, i) == SweepLower2(SweepLower1(FloorAt(m, i), i), i)

RECURSIVE ForwardSweep(_, _)
ForwardSweep(m, i) ==
    IF i >= m.matrixSize - 1 THEN m ELSE ForwardSweep(ForwardStep(m, i), i + 1)

\* b[n-1] /= d[n-1]
BackLast(m, n) == [m EXCEPT !.b_vector[n] = FDiv(@, m.diag[n])]

\* b[n-2] = (b[n-2] - u1[n-2]*b[n-1]) / d[n-2]
BackSecondLast(m, n) ==
    [m EXCEPT !.b_vector[n - 1] =
        FDiv(FSub(@, FMul(m.upper1[n - 1], m.b_vector[n])), m.diag[n - 1])]

\* Iteration i of the back-substitution loop (i is 0-based, from n-3 down to 0)
RECURSIVE BackSubstitute(_, _)
BackSubstitute(m, i) ==
    IF i < 0 THEN m
    ELSE BackSubstitute(
            [m EXCEPT !.b_vector[i + 1] =
                FDiv(FSub(FSub(@, FMul(m.upper1[i + 1], m.b_vector[i + 2])),
                          FMul(m.upper2[i + 1], m.b_vector[i + 3])),
                     m.diag[i + 1])],
            i - 1)

\* solvePentadiagonal(); with no rows every access is out of range and nothing changes
solvePentadiagonal(m) ==
    IF m.matrixSize = 0 THEN m
    ELSE BackSubstitute(
            BackSecondLast(
                BackLast(FloorAt(ForwardSweep(m, 0), m.matrixSize - 1), m.matrixSize),
                m.matrixSize),
            m.matrixSize - 3)

\* The read-back loop of step: V_new[i] = rhs[2i], I_new[i] = rhs[2i+1]
ReadBack(m, hp) ==
    [hp EXCEPT ![m.V_new] = [j \in 1 .. m.N_nodes |-> m.b_vector[2 * (j - 1) + 1]],
               ![m.I_new] = [j \in 1 .. m.N_nodes |-> m.b_vector[2 * (j - 1) + 2]]]

\* getValue(nodeIndex, type)
getValue(m, hp, nodeIndex, type) ==
    IF type = "voltage" THEN hp[m.V_new][nodeIndex + 1] ELSE hp[m.I_new][nodeIndex + 1]

(***************************************************************************)
(* worker.js.  A deck is the sequence of its lines.  The counters of the   *)
(* loop are kept exact: a whole number n is [k = "num", m = n, e = 0]      *)
(* whatever its size.  What step computes is the subject of the solver     *)
(* operations above; a run keeps which calls of step it made.              *)
(***************************************************************************)
Whole(n) == [k |-> "num", m |-> n, e |-> 0]

\* Math.ceil(x)
FCeil(x) ==
    IF x.k # "num" THEN x
    ELSE IF x.e >= 0 THEN Whole(x.m * Pow10(x.e))
    ELSE IF -x.e > MantDigits THEN Whole(IF x.m > 0 THEN 1 ELSE 0)
    ELSE Whole(-((-x.m) \div Pow10(-x.e)))

\* x + 1 on the results of Math.ceil
PlusOne(x) == IF x.k = "num" THEN Whole(x.m + 1) ELSE x

\* The loop over the lines of the deck, from line i on
RECURSIVE CompileLines(_, _, _)
CompileLines(s, deck, i) ==
    IF i > Len(deck) \/ s.outcome # "ok" THEN s
    ELSE CompileLines(CompileLine(s, deck[i]), deck, i + 1)

\* new CircuitCompiler().compile(scriptText)
compile(deck) == CompileLines(CompileEntry(NewCompiler), deck, 1)

\* const totalSteps
TotalSteps(config) == PlusOne(FCeil(FDiv(config.t_end, config.dt)))

\* new Float64Array(len) throws a RangeError
BadLength(len) == len.k = "inf" \/ (len.k = "num" /\ len.m < 0)

\* The length of new Float64Array(len) otherwise
ArrayLength(len) == IF len.k = "num" THEN len.m ELSE 0

\* solver.mem.V_old[nodeIndex] and solver.mem.I_old[nodeIndex] right after
\* new Solver(config.nodes, config.dt), as a Float64Array stores them
InitialValue(config, req) ==
    IF req.nodeIndex >= Len(config.nodes) THEN NaN
    ELSE IF req.type = "voltage" THEN SeedInitialV(config.nodes)[req.nodeIndex + 1]
    ELSE Zero

\* Row 0 of csvTimeBuffer and of every fullDataV after the t=0 record; a
\* store into an array of length 0 is dropped
RowZero(config) ==
    IF ArrayLength(TotalSteps(config)) = 0 THEN <<>>
    ELSE <<Zero>> \o [j \in 1 .. Len(config.outputRequests) |->
                        InitialValue(config, config.outputRequests[j])]

stepsPerChunk == 5000

\* A message of run r to the page
Message(type, r, pct) == [type |-> type, run |-> r, pct |-> pct]

\* runSimulation at its first postMessage, as run number r
Begun(deck, r) ==
    [deck |-> deck, status |-> "error", message |-> "",
     dt |-> NewCompiler.dt, t_end |-> NewCompiler.t_end,
     totalSteps |-> NaN, currentStep |-> Whole(1),
     row0 |-> <<>>, chunks |-> <<>>, csvRows |-> Null,
     stopped |-> FALSE,
     posted |-> <<Message("LOG", r, NaN)>>]

\* The two LOG messages after compile
Compiled(r) == <<Message("LOG", r, NaN), Message("LOG", r, NaN)>>

\* runSimulation from the return of compile to the first call of loop; the
\* messages it posts are in posted
Configured(begun, config, totalSteps, r) ==
    IF config.outcome = "hang" THEN [begun EXCEPT !.status = "hang"]
    ELSE IF config.outcome = "throw"
    THEN [begun EXCEPT !.message = config.message,
                       !.posted = Append(@, Message("ERROR", r, NaN))]
    ELSE IF BadLength(totalSteps)
    THEN [begun EXCEPT !.message = "RangeError",
                       !.dt = config.dt, !.t_end = config.t_end,
                       !.totalSteps = totalSteps,
                       !.posted = @ \o Compiled(r) \o <<Message("ERROR", r, NaN)>>]
    ELSE [begun EXCEPT !.status = "looping",
                       !.dt = config.dt, !.t_end = config.t_end,
                       !.totalSteps = totalSteps,
                       !.row0 = RowZero(config),
                       !.posted = @ \o Compiled(r)]

\* runSimulation up to the first call of loop
Prepare(deck, r) ==
    Configured(Begun(deck, r), compile(deck), TotalSteps(compile(deck)), r)

\* Math.min(currentStep + stepsPerChunk, totalSteps)
EndStep(run) ==
    IF run.currentStep.k # "num" \/ run.totalSteps.k # "num" THEN NaN
    ELSE IF run.currentStep.m + stepsPerChunk < run.totalSteps.m
         THEN Whole(run.currentStep.m + stepsPerChunk)
    ELSE run.totalSteps

\* Math.round((currentStep / totalSteps) * 100), on whole numbers
Percent(currentStep, totalSteps) ==
    IF currentStep.k # "num" \/ totalSteps.k # "num" THEN NaN
    ELSE IF totalSteps.m = 0 THEN (IF currentStep.m = 0 THEN NaN ELSE PosInf)
    ELSE Whole((200 * currentStep.m + totalSteps.m) \div (2 * totalSteps.m))

\* currentStep < totalSteps
MoreSteps(run) ==
    /\ run.currentStep.k = "num" /\ run.totalSteps.k = "num"
    /\ run.currentStep.m < run.totalSteps.m

\* finish() of run r
finish(run, r) ==
    [run EXCEPT !.status = "done",
                !.csvRows = ArrayLength(run.totalSteps),
                !.posted = @ \o <<Message("LOG", r, NaN), Message("PLOT_DATA", r, NaN),
                                  Message("LOG", r, NaN), Message("CSV_READY", r, NaN)>>]

\* The for loop of loop() up to endStep and the PROGRESS message
Chunk(run, r, endStep) ==
    [run EXCEPT !.chunks = IF endStep.k = "num" /\ run.currentStep.m < endStep.m
                           THEN Append(@, [from |-> run.currentStep.m, to |-> endStep.m])
                           ELSE @,
                !.currentStep = endStep,
                !.posted = Append(@, Message("PROGRESS", r,
                                             Percent(endStep, run.totalSteps)))]

\* The end of loop() without the setTimeout
RescheduleNever(chunked, r) ==
    IF MoreSteps(chunked) THEN [chunked EXCEPT !.status = "returned"]
    ELSE finish(chunked, r)

\* The end of loop(): the status "waiting" for the setTimeout(loop, 0), or finish()
Reschedule(chunked, r) ==
    IF MoreSteps(chunked) THEN [chunked EXCEPT !.status = "waiting"]
    ELSE finish(chunked, r)

\* loop() of run r with isRunning true
loop(run, r) == Reschedule(Chunk(run, r, EndStep(run)), r)

\* The end of runSimulation: the first call of loop
FirstLoop(run, r) == IF run.status = "looping" THEN loop(run, r) ELSE run

\* runSimulation(scriptText) as run number r
runSimulation(deck, r) == FirstLoop(Prepare(deck, r), r)

(***************************************************************************)
(* Bounds and inputs                                                       *)
(***************************************************************************)
\* Longest deck, in lines
MaxLines == 5
\* Most calls of step on one solver
MaxSteps == 2

\* The lines the decks of Spec are made of
DeckLines ==
    { <<"BRANCH">>, <<"Topbranch">>, <<"Endbranch">>,
      <<"RCGround", "1", "1e-9">>,
      <<"RLSeries", "2", "1e-9">>,
      <<"SWITCH", "Instant", "100", "1", "2e-9">>,
      <<"Initial", "VC1", "100">> }

\* The lines the decks of SpecCompile are made of
CompileDeckLines ==
    { <<"BRANCH">>, <<"Topbranch">>, <<"Endbranch">>,
      <<"RCGround", "1", "1e-9">>,
      <<"RLSeries", "2", "1e-9">>,
      <<"TXT", "V1">> }

\* The lines the decks of SpecSwitch are made of
SwitchDeckLines ==
    { <<"BRANCH">>, <<"Topbranch">>,
      <<"RLSeries", "2", "1e-9">>,
      <<"SWITCH", "Instant", "100", "1", "2e-9">> }

\* The lines the decks of SpecExponential are made of
ExponentialDeckLines ==
    { <<"RCGround", "1", "1e-9">>,
      <<"RLSeries", "2", "1e-9">>,
      <<"SWITCH", "Exponential", "100", "1", "1e9", "1e-9">> }

\* The lines the decks of SpecLabels are made of
LabelDeckLines ==
    { <<"RCGround", "1", "1e-9">>,
      <<"TXT", "V1">>, <<"TXT", "V1_1">>, <<"TXT", "I1">> }

\* The lines the decks of SpecNumbers are made of
NumberDeckLines ==
    { <<"Time-step", "abc">>, <<"End-time">>,
      <<"RCGround", "x", "1e-9">>,
      <<"RLSeries", "2", "1e-9">>,
      <<"Initial", "VC1", "volts">> }

\* The lines the decks of SpecLines are made of
IgnoredDeckLines ==
    { <<>>, <<"!", "note">>, <<"FOO", "1">>,
      <<"BRANCH">>, <<"Topbranch">>,
      <<"RLSeries", "2", "1e-9">> }

\* The lines the decks of SpecCharged are made of
ChargedDeckLines ==
    { <<"RCGround", "1", "1e-9">>,
      <<"RLSeries", "2", "1e-9">>,
      <<"Initial", "VC1", "100">> }

\* The lines the decks of SpecInitial are made of
InitialDeckLines ==
    { <<"RCGround", "1", "1e-9">>,
      <<"RLSeries", "2", "1e-9">>,
      <<"TRLine", "Linear", "1e-9", "50", "1e-9">>,
      <<"Initial", "VC1", "100">>,
      <<"Initial", "VC1", "50">> }

\* Most clicks on the run button
MaxClicks == 3

\* The decks the editor holds when the run button is clicked: three steps, two
\* chunks of steps, a time step that is no number, a time step of zero, and a
\* TXT without a label
WorkerDecks ==
    { << <<"RCGround", "1", "1e-9">>, <<"Initial", "VC1", "100">>, <<"TXT", "V1">>,
         <<"End-time", "2e-9">> >>,
      << <<"RCGround", "1", "1e-9">>, <<"Initial", "VC1", "100">>, <<"TXT", "V1">>,
         <<"End-time", "6e-6">> >>,
      << <<"RCGround", "1", "1e-9">>, <<"TXT", "V1">>, <<"Time-step", "abc">> >>,
      << <<"RCGround", "1", "1e-9">>, <<"Time-step", "0">> >>,
      << <<"RCGround", "1", "1e-9">>, <<"TXT">> >> }

\* The lines the decks of SpecProbes are made of
ProbeDeckLines ==
    { <<"RCGround", "1", "1e-9">>,
      <<"RLSeries", "2", "1e-9">>,
      <<"TRLine", "Linear", "1e-9", "50", "1e-9">>,
      <<"TXT", "V1">>,
      <<"TXT", "I1">> }

\* The lines the decks of SpecResolution are made of
ResolutionDeckLines ==
    { <<"TRLine", "Linear", "2e-9", "50">>,
      <<"TRLine", "Linear", "2e-9", "50", "1e-9">>,
      <<"TRLine", "Linear", "0", "50", "0">>,
      <<"TRLINE-RESOLUTION", "4e-9">>,
      <<"TRLINE-RESOLUTION", "abc">>,
      <<"RESOLUTION-TIME", "1e-8">> }

\* The lines the decks of SpecChain are made of
ChainDeckLines ==
    { <<"BRANCH">>, <<"Topbranch">>,
      <<"RCGround", "1", "1e-9">>,
      <<"RLSeries", "2", "1e-9">>,
      <<"SWITCH", "Instant", "100", "1", "2e-9">>,
      <<"TRLine", "Linear", "1e-9", "50", "1e-9">> }

\* The lines the decks of SpecPivot are made of
PivotDeckLines ==
    { <<"RCGround", "1", "1e-9">>,
      <<"RCGround", "1", "1e20">>,
      <<"RLSeries", "2", "1e-9">> }

\* The lines the decks of SpecReuse are made of
ReuseDeckLines ==
    { <<"Time-step", "2e-9">>,
      <<"TRLINE-RESOLUTION", "4e-9">>,
      <<"TRLine", "Linear", "2e-9", "50">>,
      <<"RCGround", "1", "1e-9">> }

\* The lines the decks of SpecZero are made of
ZeroDeckLines ==
    { <<"TRLine", "Linear", "2e-9", "50">>,
      <<"TRLine", "Linear", "2e-9", "50", "1e-9">>,
      <<"TRLine", "Linear", "2e-9", "50", "0">>,
      <<"TRLINE-RESOLUTION", "0">>,
      <<"RESOLUTION-TIME", "0">>,
      <<"RCGround", "1", "1e-9">> }

\* The times step is called with
Times == { Lit(1, -9), Lit(2, -9) }

(***************************************************************************)
(* Operations                                                              *)
(***************************************************************************)
Init ==
    /\ pc = "new"
    /\ nodes = NewCompiler.nodes
    /\ outputRequests = NewCompiler.outputRequests
    /\ blocks = NewCompiler.blocks
    /\ dt = NewCompiler.dt
    /\ t_end = NewCompiler.t_end
    /\ globalResolution = NewCompiler.globalResolution
    /\ trLineResolution = NewCompiler.trLineResolution
    /\ usedLabels = {}
    /\ nodeId = 0
    /\ mainBranchStarted = FALSE
    /\ pendingTopbranches = <<>>
    /\ activeTopbranchAnchor = Null
    /\ message = ""
    /\ lines = <<>>
    /\ solverDt = Undef
    /\ mem = NewMemory(0)
    /\ heap = NewHeap(0)
    /\ time = Undef
    /\ steps = 0
    /\ isRunning = FALSE
    /\ workerInbox = <<>>
    /\ timers = <<>>
    /\ runs = <<>>
    /\ uiInbox = <<>>
    /\ btnRunText = "RUN SIMULATION"
    /\ btnRunDisabled = FALSE
    /\ btnDownloadDisabled = TRUE
    /\ statusBox = [text |-> "", pct |-> NaN]
    /\ generatedFiles = <<>>
    /\ clicks = 0

\* compile(scriptText) is entered
CompileBegin ==
    /\ pc = "new"
    /\ pc' = "lines"
    /\ Becomes(CompileEntry(Current))
    /\ lines' = <<>>
    /\ UNCHANGED << solverVars, workerVars, uiVars >>

\* The loop takes the next line of the deck
ReadLine(parts) ==
    /\ pc = "lines"
    /\ Len(lines) < MaxLines
    /\ LET r == CompileLine(Current, parts)
       IN  /\ Becomes(r)
           /\ pc' = CASE r.outcome = "ok" -> "lines"
                      [] r.outcome = "throw" -> "thrown"
                      [] OTHER -> "hang"
    /\ lines' = Append(lines, [parts |-> parts, currentBlockStart |-> nodeId,
                                pending |-> pendingTopbranches',
                                anchor |-> activeTopbranchAnchor',
                                nBlocks |-> Len(blocks'), nNodes |-> Len(nodes'),
                                outcome |-> IF pc' = "lines" THEN "ok" ELSE pc'])
    /\ UNCHANGED << solverVars, workerVars, uiVars >>

\* The deck has no more lines: compile returns
CompileReturn ==
    /\ pc = "lines"
    /\ pc' = "returned"
    /\ UNCHANGED << compilerVars, solverVars, workerVars, uiVars >>

\* compile(scriptText) is called once more on the CircuitCompiler whose last
\* call of compile returned or threw
CompileAgain ==
    /\ pc \in {"returned", "thrown"}
    /\ pc' = "lines"
    /\ Becomes(CompileEntry(Current))
    /\ lines' = <<>>
    /\ UNCHANGED << solverVars, workerVars, uiVars >>

\* new Solver(config.nodes, config.dt)
NewSolver ==
    /\ pc = "returned"
    /\ pc' = "ready"
    /\ solverDt' = dt
    /\ mem' = NewMemory(Len(nodes))
    /\ heap' = [NewHeap(Len(nodes)) EXCEPT !["bufV1"] = SeedInitialV(nodes)]
    /\ UNCHANGED << compilerVars, time, steps, workerVars, uiVars >>

\* step(t) up to the call of solvePentadiagonal: physics update and assembly
StepAssemble(t) ==
    /\ pc = "ready"
    /\ steps < MaxSteps
    /\ pc' = "assembled"
    /\ time' = t
    /\ steps' = steps + 1
    /\ nodes' = PhysicsUpdate(nodes, t)
    /\ mem' = Assemble(mem, nodes', heap, solverDt)
    /\ UNCHANGED << outputRequests, blocks, dt, t_end, globalResolution,
                    trLineResolution, usedLabels, nodeId, mainBranchStarted,
                    pendingTopbranches, activeTopbranchAnchor, message, lines,
                    solverDt, heap, workerVars, uiVars >>

\* The rest of step(t): the solve, the read-back and the swap
StepSolve ==
    /\ pc = "assembled"
    /\ pc' = "ready"
    /\ LET solved == solvePentadiagonal(mem)
       IN  /\ heap' = ReadBack(solved, heap)
           /\ mem' = swapTimeSteps(solved)
    /\ UNCHANGED << compilerVars, solverDt, time, steps, workerVars, uiVars >>

\* statusBox.textContent
Status(text, pct) == [text |-> text, pct |-> pct]

\* A click on btnRun with deck in the editor
Click(deck) ==
    /\ clicks < MaxClicks
    /\ ~btnRunDisabled
    /\ clicks' = clicks + 1
    /\ IF btnRunText = "STOP"
       THEN /\ workerInbox' = Append(workerInbox, [command |-> "STOP", payload |-> <<>>])
            /\ btnRunText' = "RUN SIMULATION"
            /\ statusBox' = Status("Stopped", NaN)
            /\ UNCHANGED << btnDownloadDisabled, generatedFiles >>
       ELSE /\ btnDownloadDisabled' = TRUE
            /\ generatedFiles' = <<>>
            /\ btnRunText' = "STOP"
            /\ statusBox' = Status("Starting...", NaN)
            /\ workerInbox' = Append(workerInbox, [command |-> "START", payload |-> deck])
    /\ UNCHANGED << pc, compilerVars, solverVars, isRunning, timers, runs, uiInbox,
                    btnRunDisabled >>

\* No call of compile is stuck in a loop: the worker takes its next task
WorkerIdle == \A r \in 1 .. Len(runs) : runs[r].status # "hang"

\* The messages run r posted since it was as in before
NewlyPosted(before, after) == SubSeq(after.posted, Len(before.posted) + 1, Len(after.posted))

\* The worker after runSimulation made run number r
Started(run, r) ==
    /\ isRunning' = TRUE
    /\ runs' = Append(runs, run)
    /\ uiInbox' = uiInbox \o run.posted
    /\ timers' = IF run.status = "waiting" THEN Append(timers, r) ELSE timers

\* self.onmessage takes the oldest message of the page
WorkerReceives ==
    /\ workerInbox # <<>>
    /\ WorkerIdle
    /\ workerInbox' = Tail(workerInbox)
    /\ IF Head(workerInbox).command = "START"
       THEN Started(runSimulation(Head(workerInbox).payload, Len(runs) + 1), Len(runs) + 1)
       ELSE /\ isRunning' = FALSE
            /\ runs' = [r \in 1 .. Len(runs) |->
                          IF runs[r].status = "waiting"
                          THEN [runs[r] EXCEPT !.stopped = TRUE] ELSE runs[r]]
            /\ UNCHANGED << uiInbox, timers >>
    /\ UNCHANGED << pc, compilerVars, solverVars, btnRunText, btnRunDisabled,
                    btnDownloadDisabled, statusBox, generatedFiles, clicks >>

\* The worker after the callback of run number r left it as run
Called(run, r) ==
    /\ runs' = [runs EXCEPT ![r] = run]
    /\ uiInbox' = uiInbox \o NewlyPosted(runs[r], run)
    /\ timers' = IF run.status = "waiting" THEN Append(Tail(timers), r)
                 ELSE Tail(timers)

\* loop() of run number r as a timer callback: if (!isRunning) return
Callback(r) ==
    IF isRunning THEN loop(runs[r], r) ELSE [runs[r] EXCEPT !.status = "returned"]

\* The oldest pending setTimeout(loop, 0) callback runs
TimerFires ==
    /\ timers # <<>>
    /\ WorkerIdle
    /\ Called(Callback(Head(timers)), Head(timers))
    /\ UNCHANGED << pc, compilerVars, solverVars, isRunning, workerInbox, btnRunText,
                    btnRunDisabled, btnDownloadDisabled, statusBox, generatedFiles,
                    clicks >>

\* worker.onmessage of the page takes the oldest message of the worker
UIReceives ==
    /\ uiInbox # <<>>
    /\ uiInbox' = Tail(uiInbox)
    /\ LET m == Head(uiInbox)
       IN  CASE m.type = "ERROR" ->
                    /\ statusBox' = Status("Error", NaN)
                    /\ btnRunDisabled' = FALSE
                    /\ UNCHANGED << btnRunText, btnDownloadDisabled, generatedFiles >>
             [] m.type = "PROGRESS" ->
                    /\ statusBox' = Status("Running", m.pct)
                    /\ UNCHANGED << btnRunText, btnRunDisabled, btnDownloadDisabled,
                                    generatedFiles >>
             [] m.type = "CSV_READY" ->
                    /\ generatedFiles' = <<m.run>>
                    /\ btnDownloadDisabled' = FALSE
                    /\ statusBox' = Status("Done", NaN)
                    /\ btnRunDisabled' = FALSE
                    /\ btnRunText' = "RUN SIMULATION"
             [] OTHER ->
                    UNCHANGED << btnRunText, btnRunDisabled, btnDownloadDisabled,
                                 statusBox, generatedFiles >>
    /\ UNCHANGED << pc, compilerVars, solverVars, workerVars, clicks >>

Next ==
    \/ CompileBegin
    \/ \E parts \in DeckLines : ReadLine(parts)
    \/ CompileReturn
    \/ NewSolver
    \/ \E t \in Times : StepAssemble(t)
    \/ StepSolve

Spec == Init /\ [][Next]_vars

\* compile() alone
NextCompile ==
    \/ CompileBegin
    \/ \E parts \in CompileDeckLines : ReadLine(parts)
    \/ CompileReturn

SpecCompile == Init /\ [][NextCompile]_vars

\* Decks of switches and series elements, compiled and stepped
NextSwitch ==
    \/ CompileBegin
    \/ \E parts \in SwitchDeckLines : ReadLine(parts)
    \/ CompileReturn
    \/ NewSolver
    \/ \E t \in Times : StepAssemble(t)
    \/ StepSolve

SpecSwitch == Init /\ [][NextSwitch]_vars

\* Decks with an exponential switch, compiled and stepped
NextExponential ==
    \/ CompileBegin
    \/ \E parts \in ExponentialDeckLines : ReadLine(parts)
    \/ CompileReturn
    \/ NewSolver
    \/ \E t \in Times : StepAssemble(t)
    \/ StepSolve

SpecExponential == Init /\ [][NextExponential]_vars

\* compile() of decks of probes
NextLabels ==
    \/ CompileBegin
    \/ \E parts \in LabelDeckLines : ReadLine(parts)
    \/ CompileReturn

SpecLabels == Init /\ [][NextLabels]_vars

\* compile() of decks with tokens that are not numbers
NextNumbers ==
    \/ CompileBegin
    \/ \E parts \in NumberDeckLines : ReadLine(parts)
    \/ CompileReturn

SpecNumbers == Init /\ [][NextNumbers]_vars

\* compile() of decks with blank lines, comments and unknown commands
NextLines ==
    \/ CompileBegin
    \/ \E parts \in IgnoredDeckLines : ReadLine(parts)
    \/ CompileReturn

SpecLines == Init /\ [][NextLines]_vars

\* Decks of lumped elements with an initial voltage, compiled and stepped
NextCharged ==
    \/ CompileBegin
    \/ \E parts \in ChargedDeckLines : ReadLine(parts)
    \/ CompileReturn
    \/ NewSolver
    \/ \E t \in Times : StepAssemble(t)
    \/ StepSolve

SpecCharged == Init /\ [][NextCharged]_vars

\* compile() of decks of blocks and INITIAL statements
NextInitial ==
    \/ CompileBegin
    \/ \E parts \in InitialDeckLines : ReadLine(parts)
    \/ CompileReturn

SpecInitial == Init /\ [][NextInitial]_vars

\* compile() of decks of blocks and TXT statements
NextProbes ==
    \/ CompileBegin
    \/ \E parts \in ProbeDeckLines : ReadLine(parts)
    \/ CompileReturn

SpecProbes == Init /\ [][NextProbes]_vars

\* compile() of decks of TRL statements and resolution settings
NextResolution ==
    \/ CompileBegin
    \/ \E parts \in ResolutionDeckLines : ReadLine(parts)
    \/ CompileReturn

SpecResolution == Init /\ [][NextResolution]_vars

\* compile() of decks of branches and of the four kinds of element
NextChain ==
    \/ CompileBegin
    \/ \E parts \in ChainDeckLines : ReadLine(parts)
    \/ CompileReturn

SpecChain == Init /\ [][NextChain]_vars

\* compile(), new Solver() and step() for decks with a very large capacitance
NextPivot ==
    \/ CompileBegin
    \/ \E parts \in PivotDeckLines : ReadLine(parts)
    \/ CompileReturn
    \/ NewSolver
    \/ \E t \in Times : StepAssemble(t)
    \/ StepSolve

SpecPivot == Init /\ [][NextPivot]_vars

\* One CircuitCompiler whose compile() is called again and again
NextReuse ==
    \/ CompileBegin
    \/ \E parts \in ReuseDeckLines : ReadLine(parts)
    \/ CompileReturn
    \/ CompileAgain

SpecReuse == Init /\ [][NextReuse]_vars

\* compile() of decks of TRL statements and resolutions of zero
NextZero ==
    \/ CompileBegin
    \/ \E parts \in ZeroDeckLines : ReadLine(parts)
    \/ CompileReturn

SpecZero == Init /\ [][NextZero]_vars

\* The page and the worker: clicks on the run button, the two message queues
\* and the timer callbacks of the worker
NextWorker ==
    \/ \E deck \in WorkerDecks : Click(deck)
    \/ WorkerReceives
    \/ TimerFires
    \/ UIReceives

SpecWorker == Init /\ [][NextWorker]_vars

\* The same with the event loop of the worker running the timer callbacks it
\* has queued: a setTimeout(loop, 0) that is due fires
SpecWorkerFair == Init /\ [][NextWorker]_vars /\ WF_vars(TimerFires)

(***************************************************************************)
(* Reading the deck back from the iterations of the loop                   *)
(***************************************************************************)
\* The command of line p, upper-cased; "" for a blank line
Cmd(p) == IF lines[p].parts = <<>> THEN "" ELSE ToUpperCase(lines[p].parts[1])

\* The set S of line numbers as an increasing sequence
RECURSIVE Ascending(_)
Ascending(S) ==
    IF S = {} THEN <<>>
    ELSE LET lo == CHOOSE x \in S : \A y \in S : x <= y
         IN  <<lo>> \o Ascending(S \ {lo})

BranchSeq == Ascending({p \in 1 .. Len(lines) : Cmd(p) = "BRANCH"})
CallSeq == Ascending({p \in 1 .. Len(lines) : Cmd(p) \in {"TOPBRANCH", "ENDBRANCH"}})
TopSeq == Ascending({p \in 1 .. Len(lines) : Cmd(p) = "TOPBRANCH"})

\* A BRANCH line other than the first of the deck
LaterBranch(p) == Cmd(p) = "BRANCH" /\ \E q \in 1 .. p - 1 : Cmd(q) = "BRANCH"

PendingBefore(p) == IF p = 1 THEN <<>> ELSE lines[p - 1].pending
NBlocksBefore(p) == IF p = 1 THEN 0 ELSE lines[p - 1].nBlocks

\* Line p is an element statement (RCG, RLS, SWITCH or TRL)
ElementLine(p) ==
    /\ \E pre \in {"RCG", "RLS", "SWITCH", "TRL"} : StartsWith(Cmd(p), pre)
    /\ ~StartsWith(Cmd(p), "TRLINE-RESOLUTION")

\* Line p emitted a block
EmittedBlock(p) == lines[p].nBlocks = NBlocksBefore(p) + 1

\* Before line p a block was emitted, and no later BRANCH line lies between
HasPrevBlock(p) ==
    \E q \in 1 .. p - 1 :
        /\ EmittedBlock(q)
        /\ \A r \in q + 1 .. p - 1 : ~EmittedBlock(r) /\ ~LaterBranch(r)

\* The block emitted last before line p
PrevBlock(p) == blocks[NBlocksBefore(p)]

\* The last non-phantom node of block b
LastPhysical(b) ==
    LET real == {i \in b.startNode .. b.endNode : ~NodeAt(nodes, i).isPhantom}
    IN  IF real = {} THEN -1 ELSE CHOOSE i \in real : \A j \in real : j <= i

\* The BRANCH line p took the head of pendingTopbranches
IsShift(p) == Cmd(p) = "BRANCH" /\ Len(lines[p].pending) = Len(PendingBefore(p)) - 1

\* The line of the call the BRANCH line p was bound to (the queue is first in,
\* first out: the k-th shift takes what the k-th TOPBRANCH pushed), or 0
BoundCall(p) ==
    IF IsShift(p) THEN TopSeq[Cardinality({q \in 1 .. p : IsShift(q)})] ELSE 0

\* The calls that have a block to attach to
AnchoredCall(p) == Cmd(p) \in {"TOPBRANCH", "ENDBRANCH"} /\ HasPrevBlock(p)

\* Calls (with a block to attach to) among lines 1..p not yet bound to a later
\* BRANCH line, binding first in, first out
RECURSIVE UnboundCalls(_)
UnboundCalls(p) ==
    IF p = 0 THEN 0
    ELSE IF AnchoredCall(p) THEN UnboundCalls(p - 1) + 1
    ELSE IF LaterBranch(p) /\ UnboundCalls(p - 1) > 0 THEN UnboundCalls(p - 1) - 1
    ELSE UnboundCalls(p - 1)

\* After the BRANCH line p an element statement follows in the same branch
ChildHasElement(p) ==
    \E q \in p + 1 .. Len(lines) :
        ElementLine(q) /\ \A r \in p + 1 .. q - 1 : Cmd(r) # "BRANCH"

(***************************************************************************)
(* The assembled system                                                    *)
(***************************************************************************)
\* The value the sparse list holds for (row, col)
SparseEntry(m, row, col) ==
    LET hits == {k \in 1 .. Len(m.sparseElements) :
                    m.sparseElements[k].row = row /\ m.sparseElements[k].col = col}
    IN  IF hits = {} THEN Zero ELSE m.sparseElements[CHOOSE k \in hits : TRUE].val

\* The coefficient of the system at (row, col), 0-based
Entry(m, row, col) ==
    IF col = row THEN m.diag[row + 1]
    ELSE IF col = row + 1 THEN m.upper1[row + 1]
    ELSE IF col = row - 1 THEN m.lower1[row + 1]
    ELSE IF col = row + 2 THEN m.upper2[row + 1]
    ELSE IF col = row - 2 THEN m.lower2[row + 1]
    ELSE SparseEntry(m, row, col)

\* The columns where row has a non-zero coefficient
RowNonZeros(m, row) == {col \in 0 .. m.matrixSize - 1 : NotZero(Entry(m, row, col))}

\* The two scalings of a coupling coefficient
KValues == {FromInt(1), Lit(5, -1)}

(***************************************************************************)
(* Claims                                                                  *)
(***************************************************************************)

\* C1: after the k-th call of step returns (k >= 1), getValue(i, 'voltage') and
\* getValue(i, 'current') are the V_i and I_i that this call solved for, the
\* values it read back from b[2i] and b[2i+1].
C1_GetValueIsPostStep ==
    (pc = "ready" /\ steps >= 1) =>
        \A i \in 0 .. mem.N_nodes - 1 :
            /\ getValue(mem, heap, i, "voltage") = mem.b_vector[2 * i + 1]
            /\ getValue(mem, heap, i, "current") = mem.b_vector[2 * i + 2]

\* C2: when compile returns, with N nodes: nodes[i].id = i; every block has
\* 0 <= startNode <= endNode <= N-1; every output request has
\* 0 <= nodeIndex <= N-1.
C2_IndicesInRange ==
    pc = "returned" =>
        /\ \A i \in 0 .. Len(nodes) - 1 : NodeAt(nodes, i).id = i
        /\ \A k \in 1 .. Len(blocks) :
              /\ 0 <= blocks[k].startNode
              /\ blocks[k].startNode <= blocks[k].endNode
              /\ blocks[k].endNode <= Len(nodes) - 1
        /\ \A k \in 1 .. Len(outputRequests) :
              /\ 0 <= outputRequests[k].nodeIndex
              /\ outputRequests[k].nodeIndex <= Len(nodes) - 1

\* C3: the n-th BRANCH line after the first is bound to the n-th attachment call
\* (TOPBRANCH or ENDBRANCH) issued earlier in the deck.
C3_BranchesBindCallsInOrder ==
    \A n \in 1 .. Len(BranchSeq) - 1 :
        (n <= Len(CallSeq) /\ CallSeq[n] < BranchSeq[n + 1])
            => BoundCall(BranchSeq[n + 1]) = CallSeq[n]

\* C4: when at the end of the input a TOPBRANCH or ENDBRANCH call has not been
\* bound to a later BRANCH line, compile does not return.
C4_UnboundCallFails ==
    pc = "returned" => UnboundCalls(Len(lines)) = 0

\* C5: a TOPBRANCH line that does not make compile fail has a previous block in
\* its branch and records an anchor that lies in that block.
C5_TopbranchAnchorsPreviousBlock ==
    \A p \in 1 .. Len(lines) :
        (Cmd(p) = "TOPBRANCH" /\ lines[p].outcome = "ok") =>
            /\ HasPrevBlock(p)
            /\ Len(lines[p].pending) = Len(PendingBefore(p)) + 1
            /\ PrevBlock(p).startNode <= lines[p].pending[Len(lines[p].pending)]
            /\ lines[p].pending[Len(lines[p].pending)] <= PrevBlock(p).endNode

\* C6: an ENDBRANCH line after a block either makes compile fail or enqueues an
\* attachment anchored at the last physical node of that block; and compile does
\* not return when an ENDBRANCH of the main branch follows its last block.
C6_EndbranchEnqueues ==
    /\ \A p \in 1 .. Len(lines) :
          (Cmd(p) = "ENDBRANCH" /\ HasPrevBlock(p)) =>
              \/ lines[p].outcome = "throw"
              \/ /\ Len(lines[p].pending) = Len(PendingBefore(p)) + 1
                 /\ lines[p].pending[Len(lines[p].pending)] = LastPhysical(PrevBlock(p))
    /\ pc = "returned" =>
          ~ \E p \in 1 .. Len(lines) :
                /\ Cmd(p) = "ENDBRANCH"
                /\ HasPrevBlock(p)
                /\ \A q \in 1 .. p - 1 : ~LaterBranch(q)
                /\ \A q \in p + 1 .. Len(lines) :
                      EmittedBlock(q) => \E r \in p + 1 .. q - 1 : LaterBranch(r)

\* The BRANCH lines that took a TOPBRANCH anchor and open a branch with elements
TopAttachLines ==
    {p \in 1 .. Len(lines) : IsShift(p) /\ ChildHasElement(p)}

\* C7: for every TOP attachment, across adjacent parent nodes gL, gL+1 and with
\* child first node gc, the assembled system has +K at (rK(gL), 2gc+1), -K at
\* (rK(gL+1), 2gc+1), and row rK(gc) has exactly the non-zeros +1 at 2gc, -1 at
\* 2gL, +1 at 2(gL+1) with right-hand side 0; the child's nodes are unknowns of
\* their own.
C7_TopAttachmentRows ==
    pc = "assembled" =>
        \A p \in TopAttachLines :
            LET gc == lines[p].currentBlockStart
            IN  /\ gc <= mem.N_nodes - 1
                /\ \E gL \in 0 .. gc - 2 : \E K \in KValues :
                      /\ Entry(mem, RowI(nodes, gL), 2 * gc + 1) = K
                      /\ Entry(mem, RowI(nodes, gL + 1), 2 * gc + 1) = FNeg(K)
                      /\ RowNonZeros(mem, RowI(nodes, gc)) = {2 * gc, 2 * gL, 2 * gL + 2}
                      /\ Entry(mem, RowI(nodes, gc), 2 * gc) = FromInt(1)
                      /\ Entry(mem, RowI(nodes, gc), 2 * gL) = FromInt(-1)
                      /\ Entry(mem, RowI(nodes, gc), 2 * gL + 2) = FromInt(1)
                      /\ mem.b_vector[RowI(nodes, gc) + 1] = Zero

\* The pairs <<call line, BRANCH line>> of the END attachments: the n-th later
\* BRANCH line with the n-th call, where that call is an ENDBRANCH after a block
\* and the branch has elements
EndAttachments ==
    {<<CallSeq[n], BranchSeq[n + 1]>> : n \in
        {k \in 1 .. Len(BranchSeq) - 1 :
            /\ k <= Len(CallSeq)
            /\ CallSeq[k] < BranchSeq[k + 1]
            /\ \A j \in 1 .. k : HasPrevBlock(CallSeq[j])
            /\ Cmd(CallSeq[k]) = "ENDBRANCH"
            /\ ChildHasElement(BranchSeq[k + 1])}}

\* C8: for every END attachment at parent node gp with child first node gc, the
\* assembled system has +K at (rK(gp), 2gc+1), and row rK(gc) has exactly the
\* non-zeros +1 at 2gc and -1 at 2gp with right-hand side 0.
C8_EndAttachmentRows ==
    pc = "assembled" =>
        \A a \in EndAttachments :
            LET gp == LastPhysical(PrevBlock(a[1]))
                gc == lines[a[2]].currentBlockStart
            IN  /\ gc <= mem.N_nodes - 1
                /\ \E K \in KValues : Entry(mem, RowI(nodes, gp), 2 * gc + 1) = K
                /\ RowNonZeros(mem, RowI(nodes, gc)) = {2 * gc, 2 * gp}
                /\ Entry(mem, RowI(nodes, gc), 2 * gc) = FromInt(1)
                /\ Entry(mem, RowI(nodes, gc), 2 * gp) = FromInt(-1)
                /\ mem.b_vector[RowI(nodes, gc) + 1] = Zero

\* The first node of each branch: 0 for the main branch, and the node counter at
\* each later BRANCH line
BranchStarts ==
    {0} \cup {lines[p].currentBlockStart : p \in {q \in 1 .. Len(lines) : LaterBranch(q)}}

\* The last node of each branch that has nodes
BranchLastNodes ==
    {g \in 0 .. Len(nodes) - 1 :
        /\ g = Len(nodes) - 1 \/ g + 1 \in BranchStarts
        /\ \E s \in BranchStarts : s <= g}

\* C9: in every step the last node of every branch (the main branch and each
\* branch opened by a later BRANCH line) is an RL_SERIES node whose voltage row
\* is the single non-zero +1 at column 2i+1 with right-hand side 0.
C9_EveryBranchEndsOpen ==
    pc = "assembled" =>
        \A g \in BranchLastNodes :
            /\ NodeAt(nodes, g).type = RL_SERIES
            /\ RowNonZeros(mem, RowV(nodes, g)) = {2 * g + 1}
            /\ Entry(mem, RowV(nodes, g), 2 * g + 1) = FromInt(1)
            /\ mem.b_vector[RowV(nodes, g) + 1] = Zero

\* The INSTANT switch nodes
InstantSwitches ==
    {i \in 0 .. Len(nodes) - 1 :
        NodeAt(nodes, i).isSwitch /\ NodeAt(nodes, i).switchType = "INSTANT"}

\* The resistance step(t) is to use for the switch node n
SwitchR(n, t) ==
    IF FLess(t, n.switchParams.tSwitch) THEN n.switchParams.rOpen
                                        ELSE n.switchParams.rClose

\* The coefficient of I_i in the voltage row of a node that is not the last,
\* for resistance R
VoltageRowCoefficient(n, R) == FNeg(FAdd(FMul(THETA, R), FDiv(n.L, solverDt)))

\* In the system assembled by step(time) every INSTANT switch has the resistance
\* of its side of t_switch, and its voltage row was built from it
SwitchUsesCurrentR ==
    pc = "assembled" =>
        \A i \in InstantSwitches :
            /\ NodeAt(nodes, i).R = SwitchR(NodeAt(nodes, i), time)
            /\ i < Len(nodes) - 1 =>
                  Entry(mem, RowV(nodes, i), 2 * i + 1)
                      = VoltageRowCoefficient(NodeAt(nodes, i), SwitchR(NodeAt(nodes, i), time))

\* A step that follows a step at or after t_switch, with a time that is not
\* smaller, assembles with R_close
SwitchStaysClosed ==
    (pc = "ready" /\ steps >= 1 /\ pc' = "assembled" /\ ~FLess(time', time)) =>
        \A i \in InstantSwitches :
            ~FLess(time, NodeAt(nodes, i).switchParams.tSwitch) =>
                /\ NodeAt(nodes', i).R = NodeAt(nodes, i).switchParams.rClose
                /\ i < Len(nodes) - 1 =>
                      Entry(mem', RowV(nodes, i), 2 * i + 1)
                          = VoltageRowCoefficient(NodeAt(nodes, i),
                                                  NodeAt(nodes, i).switchParams.rClose)

\* C10: for every INSTANT switch node and every call step(t), the system that
\* call assembles uses R_open when t < t_switch and R_close otherwise; and with
\* non-decreasing t, after a step with t >= t_switch every later assembly uses
\* R_close.
C10_SwitchUpdatePrecedesAssembly ==
    [] SwitchUsesCurrentR /\ [][SwitchStaysClosed]_vars

\* Reached: the second step of a run assembles, at t = t_switch, a system in
\* which a switch that is not the last node has closed
C10_Witness ==
    /\ pc = "assembled"
    /\ steps = 2
    /\ \E i \in InstantSwitches :
          /\ i < Len(nodes) - 1
          /\ time = NodeAt(nodes, i).switchParams.tSwitch
          /\ NodeAt(nodes, i).R = NodeAt(nodes, i).switchParams.rClose
          /\ NodeAt(nodes, i).R # NodeAt(nodes, i).switchParams.rOpen
          /\ Entry(mem, RowV(nodes, i), 2 * i + 1)
                = VoltageRowCoefficient(NodeAt(nodes, i), NodeAt(nodes, i).switchParams.rClose)

\* The EXPONENTIAL switch nodes
ExponentialSwitches ==
    {i \in 0 .. Len(nodes) - 1 :
        NodeAt(nodes, i).isSwitch /\ NodeAt(nodes, i).switchType = "EXPONENTIAL"}

\* Number of terms of the exponential series
ExpTerms == 8

\* The sum of the terms n .. ExpTerms of the series of exp(x), term being the
\* n-th term
RECURSIVE ExpTail(_, _, _)
ExpTail(x, n, term) ==
    IF n > ExpTerms THEN Zero
    ELSE FAdd(term, ExpTail(x, n + 1, FDiv(FMul(term, x), FromInt(n + 1))))

\* exp(x) for |x| <= 1
ExpSeries(x) == ExpTail(x, 0, FromInt(1))

\* R_close + R_open * exp(-k * max(0, t - t_switch))
ExponentialR(p, t) ==
    FAdd(p.rClose,
         FMul(p.rOpen,
              ExpSeries(FNeg(FMul(p.kDecay, FMax(Zero, FSub(t, p.tSwitch)))))))

\* C11: for every EXPONENTIAL switch node and every call step(t), the system
\* that call assembles uses R_close + R_open*exp(-k*max(0, t - t_switch)) of the
\* parameters captured at parse; for k > 0, R_open > 0 and t > t_switch this
\* is strictly smaller than the resistance the node got at parse.
C11_ExponentialSwitchDecays ==
    pc = "assembled" =>
        \A i \in ExponentialSwitches :
            LET n == NodeAt(nodes, i)
                p == n.switchParams
            IN  /\ n.R = ExponentialR(p, time)
                /\ i < Len(nodes) - 1 =>
                      Entry(mem, RowV(nodes, i), 2 * i + 1)
                          = VoltageRowCoefficient(n, ExponentialR(p, time))
                /\ (FLess(p.tSwitch, time) /\ FLess(Zero, p.kDecay) /\ FLess(Zero, p.rOpen))
                      => FLess(n.R, FAdd(p.rOpen, p.rClose))

\* The TXT lines that registered a probe, in deck order: the j-th of them made
\* outputRequests[j]
TxtSeq ==
    Ascending({p \in 1 .. Len(lines) :
                 StartsWith(Cmd(p), "TXT") /\ lines[p].outcome = "ok"
                 /\ Len(lines[p].parts) >= 2})

\* The label the j-th TXT line asked for
TxtTarget(j) == lines[TxtSeq[j]].parts[2]

\* The j-th TXT line is the k-th that asks for its label
Occurrence(j) == Cardinality({i \in 1 .. j : TxtTarget(i) = TxtTarget(j)})

\* The labels registered before the j-th TXT line
LabelsBefore(j) == {outputRequests[i].label : i \in 1 .. j - 1}

\* The least c >= 1 for which L_c is not in used
LeastFreeSuffix(L, used) ==
    CHOOSE c \in 1 .. Cardinality(used) + 1 :
        /\ (L \o "_" \o ToString(c)) \notin used
        /\ \A d \in 1 .. c - 1 : (L \o "_" \o ToString(d)) \in used

\* C14: the labels of the output requests compile returns are pairwise
\* distinct, whatever labels the TXT statements use and in whatever order.
C14_LabelsDistinct ==
    pc = "returned" =>
        \A i, j \in 1 .. Len(outputRequests) :
            i # j => outputRequests[i].label # outputRequests[j].label

\* Reached: compile returns for a deck that asks twice for V1 and also for the
\* label V1_1 that the suffix would make
C14_Witness ==
    /\ pc = "returned"
    /\ Len(outputRequests) >= 3
    /\ \E i, j, k \in 1 .. Len(TxtSeq) :
          /\ i < j
          /\ TxtTarget(i) = "V1" /\ TxtTarget(j) = "V1"
          /\ TxtTarget(k) = "V1_1"

\* C15 as stated: the k-th TXT statement using L (k >= 2) is registered under
\* L_(k-1), whatever other labels the deck uses.
C15_SuffixIsOccurrence ==
    \A j \in 1 .. Len(TxtSeq) :
        (j <= Len(outputRequests) /\ Occurrence(j) >= 2) =>
            outputRequests[j].label
                = TxtTarget(j) \o "_" \o ToString(Occurrence(j) - 1)

\* The first TXT statement using the label of the j-th was registered under
\* that label, and no TXT statement of the deck asks for a label that starts
\* with it and an underscore
PlainLabel(j) ==
    /\ \E i \in 1 .. j :
          /\ TxtTarget(i) = TxtTarget(j) /\ Occurrence(i) = 1
          /\ outputRequests[i].label = TxtTarget(j)
    /\ \A i \in 1 .. Len(TxtSeq) : ~StartsWith(TxtTarget(i), TxtTarget(j) \o "_")

\* C15 amended: the k-th TXT statement using L (k >= 2) is registered under
\* L_c for the least c >= 1 such that L_c is not registered yet; this is
\* L_(k-1) when the first statement using L was registered under L and no
\* statement of the deck asks for a label that starts with L_.
C15_SuffixIsLeastFree ==
    \A j \in 1 .. Len(TxtSeq) :
        (j <= Len(outputRequests) /\ Occurrence(j) >= 2) =>
            /\ outputRequests[j].label
                  = TxtTarget(j) \o "_"
                      \o ToString(LeastFreeSuffix(TxtTarget(j), LabelsBefore(j)))
            /\ PlainLabel(j) =>
                  outputRequests[j].label
                      = TxtTarget(j) \o "_" \o ToString(Occurrence(j) - 1)

\* Reached: the second statement that asks for V1 is registered as V1_2,
\* V1_1 being taken by a statement that asked for it
C15_Witness ==
    \E j \in 1 .. Len(TxtSeq) :
        /\ j <= Len(outputRequests)
        /\ TxtTarget(j) = "V1" /\ Occurrence(j) = 2
        /\ "V1_1" \in LabelsBefore(j)
        /\ outputRequests[j].label = "V1_2"

\* The positions (0-based) of the numeric arguments of a recognised command
NumericPositions(cmd) ==
    IF \E pre \in {"TIME-STEP", "END-TIME", "RESOLUTION-TIME", "TRLINE-RESOLUTION"} :
          StartsWith(cmd, pre) THEN {1}
    ELSE IF StartsWith(cmd, "RCG") \/ StartsWith(cmd, "RLS") THEN {1, 2}
    ELSE IF StartsWith(cmd, "SWITCH") THEN {2, 3, 4, 5}
    ELSE IF StartsWith(cmd, "TRL") THEN {2, 3, 4}
    ELSE IF StartsWith(cmd, "INITIAL") THEN {2}
    ELSE {}

\* Line p has, at the position of a numeric argument, a token parseFloat finds
\* no number in
HasBadNumber(p) ==
    \E i \in NumericPositions(Cmd(p)) :
        i + 1 <= Len(lines[p].parts) /\ IsNaN(ParseFloat(lines[p].parts[i + 1]))

IsNumber(x) == x.k = "num"

\* C16: a line with a token that is not a number at a numeric argument of a
\* recognised command makes compile fail, and compile never returns a circuit
\* whose dt, t_end or node R, L, G, C or initialV is not a number.
C16_BadNumberFails ==
    /\ \A p \in 1 .. Len(lines) : HasBadNumber(p) => lines[p].outcome = "throw"
    /\ pc = "returned" =>
          /\ IsNumber(dt) /\ IsNumber(t_end)
          /\ \A i \in 1 .. Len(nodes) :
                /\ IsNumber(nodes[i].R) /\ IsNumber(nodes[i].L)
                /\ IsNumber(nodes[i].G) /\ IsNumber(nodes[i].C)
                /\ nodes[i].initialV = Undef \/ IsNumber(nodes[i].initialV)

\* The first token, upper-cased, is none of the commands of the deck language
UnknownCommand(cmd) ==
    /\ cmd \notin {"BRANCH", "TOPBRANCH", "ENDBRANCH"}
    /\ \A pre \in {"TIME-STEP", "END-TIME", "RESOLUTION-TIME", "TRLINE-RESOLUTION",
                   "RCG", "RLS", "SWITCH", "TRL", "INITIAL", "TXT"} :
          ~StartsWith(cmd, pre)

\* A blank line, a comment, or a line of an unknown command
Ignorable(parts) ==
    \/ parts = <<>>
    \/ StartsWith(parts[1], "!")
    \/ UnknownCommand(ToUpperCase(parts[1]))

\* The iteration of the loop over an ignorable line changes nothing
IgnorableLineIsSkipped ==
    (Len(lines') = Len(lines) + 1 /\ Ignorable(lines'[Len(lines')].parts)) =>
        /\ lines'[Len(lines')].outcome = "ok"
        /\ pc' = "lines"
        /\ nodes' = nodes /\ blocks' = blocks /\ outputRequests' = outputRequests
        /\ dt' = dt /\ t_end' = t_end
        /\ globalResolution' = globalResolution
        /\ trLineResolution' = trLineResolution
        /\ pendingTopbranches' = pendingTopbranches
        /\ activeTopbranchAnchor' = activeTopbranchAnchor

\* C17: a line whose first token matches no recognised command, a blank line
\* and a line starting with '!' are ignored silently: compile raises no error
\* and the nodes, blocks, output requests, timing scalars, pending branch calls
\* and active anchor are after the line what they were before it.
C17_UnknownLinesIgnored == [][IgnorableLineIsSkipped]_vars

\* Reached: a blank line, a comment and an unknown command have been read
\* after an element and a Topbranch call, and the circuit and the pending call
\* are still there
C17_Witness ==
    /\ pc = "lines"
    /\ nodes # <<>> /\ Len(blocks) = 1 /\ pendingTopbranches # <<>>
    /\ \E p, q, r \in 1 .. Len(lines) :
          /\ lines[p].parts = <<>>
          /\ lines[q].parts # <<>> /\ StartsWith(lines[q].parts[1], "!")
          /\ lines[r].parts # <<>> /\ lines[r].parts[1] = "FOO"
          /\ \A k \in {p, q, r} :
                /\ lines[k].outcome = "ok"
                /\ lines[k].nNodes = Len(nodes) /\ lines[k].nBlocks = 1
                /\ lines[k].pending = pendingTopbranches

\* C18: every coefficient the stencil of one assembly places at (row, col) has
\* 0 <= row, col < 2N and |row - col| <= 2, so setMatrixVal stores it in a band
\* array and drops none; no cell is written twice in one assembly; and the
\* assembled system has no non-zero outside the cells written.
C18_StencilInBand ==
    pc = "assembled" =>
        LET w == AssemblyWrites(nodes, 0)
        IN  /\ \A k \in 1 .. Len(w) :
                  /\ 0 <= w[k][1] /\ w[k][1] < mem.matrixSize
                  /\ 0 <= w[k][2] /\ w[k][2] < mem.matrixSize
                  /\ w[k][1] - w[k][2] <= 2 /\ w[k][2] - w[k][1] <= 2
                  /\ Entry(setMatrixVal(clearMatrix(mem), w[k][1], w[k][2], FromInt(1)),
                           w[k][1], w[k][2]) = FromInt(1)
            /\ \A j, k \in 1 .. Len(w) : j # k => w[j] # w[k]
            /\ \A row, col \in 0 .. mem.matrixSize - 1 :
                  NotZero(Entry(mem, row, col)) => \E k \in 1 .. Len(w) : w[k] = <<row, col>>

\* Reached: a system of four nodes or more is assembled, with a coefficient on
\* each of the five diagonals
C18_Witness ==
    /\ pc = "assembled"
    /\ mem.N_nodes >= 4
    /\ \A off \in {-2, -1, 0, 1, 2} :
          \E row \in 0 .. mem.matrixSize - 1 :
              /\ 0 <= row + off /\ row + off < mem.matrixSize
              /\ NotZero(Entry(mem, row, row + off))

\* One call of swapTimeSteps on m exchanges the V pair and the I pair and
\* leaves every other field of the memory as it is
SwapExchanges(m) ==
    LET s == swapTimeSteps(m)
    IN  /\ s.V_old = m.V_new /\ s.V_new = m.V_old
        /\ s.I_old = m.I_new /\ s.I_new = m.I_old
        /\ [s EXCEPT !.V_old = m.V_old, !.V_new = m.V_new,
                     !.I_old = m.I_old, !.I_new = m.I_new] = m

\* Whenever a solver exists: one swap exchanges both pairs, and two swaps give
\* back the four references
SwapIsInvolutive ==
    pc \in {"ready", "assembled"} =>
        /\ SwapExchanges(mem)
        /\ SwapExchanges(swapTimeSteps(mem))
        /\ swapTimeSteps(swapTimeSteps(mem)) = mem

\* The swap at the end of step changes no array: the arrays hold after the step
\* what the read-back wrote, the references are exchanged
SwapKeepsContents ==
    (pc = "assembled" /\ pc' = "ready") =>
        /\ heap' = ReadBack(solvePentadiagonal(mem), heap)
        /\ mem'.V_old = mem.V_new /\ mem'.V_new = mem.V_old
        /\ mem'.I_old = mem.I_new /\ mem'.I_new = mem.I_old

\* C19: swapTimeSteps is involutive: two consecutive calls leave V_old, V_new,
\* I_old and I_new referring to the arrays they referred to, and one call
\* exchanges the V pair and the I pair together without changing the contents
\* of any array.
C19_SwapInvolutive == [] SwapIsInvolutive /\ [][SwapKeepsContents]_vars

\* Reached: after one step the references are exchanged, and the two voltage
\* arrays and the two current arrays differ in content
C19_Witness ==
    /\ pc = "ready" /\ steps = 1
    /\ mem.V_old = "bufV2" /\ mem.V_new = "bufV1"
    /\ mem.I_old = "bufI2" /\ mem.I_new = "bufI1"
    /\ heap["bufV1"] # heap["bufV2"]
    /\ heap["bufI1"] # heap["bufI2"]

\* Node i with initialV = V
WithInitialV(n, V) == [n EXCEPT !.initialV = V]

\* The node list INITIAL with value V is to leave, from the node list ns and
\* the most recent block b
AfterInitial(ns, b, V) ==
    IF b.type = "TRL"
    THEN [j \in 1 .. Len(ns) |->
            IF b.startNode <= j - 1 /\ j - 1 <= b.endNode /\ ns[j].initialV = Undef
            THEN WithInitialV(ns[j], V) ELSE ns[j]]
    ELSE LET real == {i \in b.startNode .. b.endNode :
                        NodeAt(ns, i).type = RC_GROUND /\ ~NodeAt(ns, i).isPhantom}
         IN  IF real = {} THEN ns
             ELSE LET g == CHOOSE i \in real : \A k \in real : k <= i
                  IN  [j \in 1 .. Len(ns) |->
                         IF j - 1 = g
                            \/ (j - 1 > g /\ \A k \in g + 1 .. j - 1 : NodeAt(ns, k).isPhantom)
                         THEN WithInitialV(ns[j], V) ELSE ns[j]]

\* The iteration of the loop over an INITIAL line
InitialActsOnLastBlock ==
    (/\ Len(lines') = Len(lines) + 1
     /\ lines'[Len(lines')].parts # <<>>
     /\ StartsWith(ToUpperCase(lines'[Len(lines')].parts[1]), "INITIAL")) =>
        /\ pc' = "lines"
        /\ blocks' = blocks /\ outputRequests' = outputRequests
        /\ nodes' = IF blocks = <<>> THEN nodes
                    ELSE AfterInitial(nodes, blocks[Len(blocks)],
                                      ParseFloat(Part(lines'[Len(lines')].parts, 2)))

ResultTypes == {"PROGRESS", "PLOT_DATA", "CSV_READY"}

\* The calls of step run made, as the set of their indices i
SteppedIndices(run) ==
    UNION {run.chunks[k].from .. run.chunks[k].to - 1 : k \in 1 .. Len(run.chunks)}

\* A run the worker processed STOP for makes no call of step and posts no result
StoppedRunIsQuiet ==
    \A r \in 1 .. Len(runs) :
        runs[r].stopped =>
            /\ runs'[r].chunks = runs[r].chunks
            /\ \A k \in 1 .. Len(NewlyPosted(runs[r], runs'[r])) :
                  NewlyPosted(runs[r], runs'[r])[k].type \notin ResultTypes

\* C12: once the worker has processed a STOP message for a run, step is never
\* called again on that run's solver and that run posts no further PROGRESS,
\* PLOT_DATA or CSV_READY message, whatever messages (a new START included)
\* arrive afterwards and however they interleave with the pending chunk callback.
C12_StopCancelsRun == [][StoppedRunIsQuiet]_vars

\* The chunks of run are the calls step(i * dt) for i = 1 .. n, each once and in
\* increasing order
SteppedOnceInOrder(run, n) ==
    /\ SteppedIndices(run) = 1 .. n
    /\ \A k \in 1 .. Len(run.chunks) :
          /\ run.chunks[k].from < run.chunks[k].to
          /\ run.chunks[k].from = IF k = 1 THEN 1 ELSE run.chunks[k - 1].to

\* The initial condition of the node of probe req: initialV of a voltage probe
\* (0 when the node has none), 0 of a current probe
InitialCondition(config, req) ==
    IF req.type = "current" THEN Zero
    ELSE IF Truthy(NodeAt(config.nodes, req.nodeIndex).initialV)
         THEN NodeAt(config.nodes, req.nodeIndex).initialV
    ELSE Zero

\* C13: for every run that completes, the CSV table has ceil(t_end/dt)+1 rows,
\* one for t=0 plus one per call of step; step was called exactly once for each
\* i = 1..ceil(t_end/dt), in increasing order, row i carrying time i*dt; and row
\* 0 holds, for each probe, the initial condition.
C13_CsvRowPerStep ==
    \A r \in 1 .. Len(runs) :
        runs[r].status = "done" =>
            LET run == runs[r]
                config == compile(run.deck)
                n == FCeil(FDiv(run.t_end, run.dt))
            IN  /\ n.k = "num"
                /\ run.csvRows = n.m + 1
                /\ SteppedOnceInOrder(run, n.m)
                /\ Len(run.row0) = 1 + Len(config.outputRequests)
                /\ run.row0[1] = Zero
                /\ \A j \in 1 .. Len(config.outputRequests) :
                      run.row0[j + 1] = InitialCondition(config, config.outputRequests[j])

\* The line the loop took in this step
LineRead == lines'[Len(lines')].parts

\* The loop took a TXT line with a label, after at least one block
TxtAfterBlock ==
    /\ Len(lines') = Len(lines) + 1
    /\ Len(LineRead) >= 2
    /\ StartsWith(ToUpperCase(LineRead[1]), "TXT")
    /\ blocks # <<>>

\* The highest-indexed non-phantom node of block b
HighestReal(ns, b) ==
    CHOOSE k \in b.startNode .. b.endNode :
        /\ ~NodeAt(ns, k).isPhantom
        /\ \A j \in k + 1 .. b.endNode : NodeAt(ns, j).isPhantom

\* The probe a TXT line after a block registers
TxtRegistersProbe ==
    TxtAfterBlock =>
        /\ Len(outputRequests') = Len(outputRequests) + 1
        /\ LET req == outputRequests'[Len(outputRequests')]
               b == blocks[Len(blocks)]
           IN  /\ StartsWith(LineRead[2], "I") =>
                     /\ req.type = "current"
                     /\ req.nodeIndex = IF b.startNode = 0 THEN 0 ELSE b.startNode - 1
               /\ StartsWith(LineRead[2], "V") =>
                     /\ req.type = "voltage"
                     /\ \E k \in b.startNode .. b.endNode : ~NodeAt(nodes, k).isPhantom
                     /\ req.nodeIndex = HighestReal(nodes, b)

SettingLines(pre) == {p \in 1 .. Len(lines) : StartsWith(Cmd(p), pre)}

\* The value the last of the lines S set
LastSetting(S) == ParseFloat(Part(lines[CHOOSE p \in S : \A q \in S : q <= p].parts, 1))

\* The resolution of the TRL line parts: its own argument when given, otherwise
\* the TRLINE-RESOLUTION value in force, otherwise half the RESOLUTION-TIME value
\* in force (1e-9 when the deck set none)
ResolutionInForce(parts) ==
    IF Len(parts) > 4 THEN ParseFloat(parts[5])
    ELSE IF SettingLines("TRLINE-RESOLUTION") # {}
         THEN LastSetting(SettingLines("TRLINE-RESOLUTION"))
    ELSE IF SettingLines("RESOLUTION-TIME") # {}
         THEN FDiv(LastSetting(SettingLines("RESOLUTION-TIME")), FromInt(2))
    ELSE FDiv(Lit(1, -9), FromInt(2))

\* max(1, round(delay / res)) of the TRL line parts
SegmentsOf(parts) ==
    FMax(FromInt(1), FRound(FDiv(ParseFloat(Part(parts, 2)), ResolutionInForce(parts))))

\* The iteration of the loop over a TRL line or a TRLINE-RESOLUTION line
TrlAppendsSegments ==
    (Len(lines') = Len(lines) + 1 /\ LineRead # <<>>) =>
        /\ StartsWith(ToUpperCase(LineRead[1]), "TRLINE-RESOLUTION") =>
              blocks' = blocks /\ nodes' = nodes
        /\ (/\ StartsWith(ToUpperCase(LineRead[1]), "TRL")
            /\ ~StartsWith(ToUpperCase(LineRead[1]), "TRLINE-RESOLUTION")) =>
              /\ IsFinite(SegmentsOf(LineRead))
              /\ Len(nodes') = Len(nodes) + 4 * ToInt(SegmentsOf(LineRead))

\* C22: a TRL statement appends exactly 4*segments nodes with segments =
\* max(1, round(delay/res)), where res is the statement's own resolution argument
\* when given, otherwise the TRLINE-RESOLUTION value in force at that statement,
\* otherwise half the RESOLUTION-TIME value in force at that statement; a
\* TRLINE-RESOLUTION line itself never creates a block.
C22_TrlSegments == [][TrlAppendsSegments]_vars

\* C23: after any sequence of deck statements the node list strictly alternates
\* RC_GROUND / RL_SERIES starting with RC_GROUND: node i is RC_GROUND iff i is
\* even, N is even, every block starts at an even index and ends at an odd
\* index, and each block starts at the previous block's endNode + 1.
C23_ChainAlternates ==
    /\ Len(nodes) % 2 = 0
    /\ \A i \in 0 .. Len(nodes) - 1 :
          /\ NodeAt(nodes, i).type \in {RC_GROUND, RL_SERIES}
          /\ NodeAt(nodes, i).type = RC_GROUND <=> i % 2 = 0
    /\ \A k \in 1 .. Len(blocks) :
          /\ blocks[k].startNode % 2 = 0
          /\ blocks[k].endNode % 2 = 1
          /\ k > 1 => blocks[k].startNode = blocks[k - 1].endNode + 1

\* Reached: compile returned a chain of an RCG, a SWITCH and a TRL block, after
\* a BRANCH line
C23_Witness ==
    /\ pc = "returned"
    /\ {blocks[k].type : k \in 1 .. Len(blocks)} = {"RCG", "SWITCH", "TRL"}
    /\ Len(blocks) = 3 /\ Len(nodes) = 8
    /\ \E p \in 1 .. Len(lines) : Cmd(p) = "BRANCH"

\* The matrix when iteration i of the forward sweep begins (i is 0-based; at
\* i = n-1 the sweep is over)
RECURSIVE SweptTo(_, _)
SweptTo(m, i) == IF i = 0 THEN m ELSE ForwardStep(SweptTo(m, i - 1), i - 1)

\* d floored to 1e-25 in magnitude, keeping its sign
SignedFloor(d) ==
    IF FLess(FAbs(d), Lit(1, -25))
    THEN (IF d.m < 0 THEN Lit(-1, -25) ELSE Lit(1, -25))
    ELSE d

\* used, the divisor the solver takes for the pivot d, is d floored with its sign
FlooredWithSign(d, used) ==
    /\ used = SignedFloor(d)
    /\ ~FLess(FAbs(used), Lit(1, -25))
    /\ d.m # 0 => FSign(used) = FSign(d)

\* C24: in solvePentadiagonal every pivot d[i] (0 <= i <= n-1) is floored
\* before it is used as a divisor: when |d[i]| < 1e-25 it is replaced by 1e-25
\* carrying the sign of d[i], so every divisor has magnitude at least 1e-25 and
\* the sign of the unfloored pivot.
C24_PivotFloorKeepsSign ==
    pc = "assembled" =>
        \A i \in 0 .. mem.matrixSize - 1 :
            FlooredWithSign(SweptTo(mem, i).diag[i + 1],
                            FloorAt(SweptTo(mem, i), i).diag[i + 1])

\* Run number r was started, its deck compiled and its step count is finite
FiniteRun(r) ==
    /\ r <= Len(runs)
    /\ runs[r].status \notin {"error", "hang"}
    /\ runs[r].totalSteps.k = "num"

\* Run number r finished, or the worker processed STOP while it was in progress
FinishedOrStopped(r) ==
    /\ r <= Len(runs)
    /\ runs[r].status = "done" \/ runs[r].stopped

\* The places of the messages of type type among the messages run posted
PostedAt(run, type) == {k \in 1 .. Len(run.posted) : run.posted[k].type = type}

\* What a run posted and stepped so far: chunks of at most 5000 steps, at most
\* one CSV_READY, after PLOT_DATA and after every PROGRESS; exactly one when done
PostsInOrder(run) ==
    /\ \A k \in 1 .. Len(run.chunks) : run.chunks[k].to - run.chunks[k].from <= stepsPerChunk
    /\ Cardinality(PostedAt(run, "CSV_READY")) <= 1
    /\ \A c \in PostedAt(run, "CSV_READY") :
          /\ \E p \in PostedAt(run, "PLOT_DATA") : p < c
          /\ \A p \in PostedAt(run, "PROGRESS") : p < c
    /\ run.status = "done" => Cardinality(PostedAt(run, "CSV_READY")) = 1

EveryRunPostsInOrder == \A r \in 1 .. Len(runs) : FiniteRun(r) => PostsInOrder(runs[r])

ElementRead ==
    /\ Len(lines') = Len(lines) + 1
    /\ pc' = "lines"
    /\ LineRead # <<>>
    /\ \E pre \in {"RCG", "RLS", "SWITCH", "TRL"} :
           StartsWith(ToUpperCase(LineRead[1]), pre)
    /\ ~StartsWith(ToUpperCase(LineRead[1]), "TRLINE-RESOLUTION")

\* The last BRANCH line read so far bound a pending call, and no element line
\* was read after it
FirstOfBoundChild ==
    \E b \in 1 .. Len(lines) :
        /\ IsShift(b)
        /\ \A q \in b + 1 .. Len(lines) : ~ElementLine(q) /\ Cmd(q) # "BRANCH"

\* The nodes that were there before the line are the same after it, except
\* the ones of the set Touched (zero-based indices)
NodesKept(Touched) ==
    /\ Len(nodes') >= Len(nodes)
    /\ \A i \in 0 .. Len(nodes) - 1 :
           i \notin Touched => NodeAt(nodes', i) = NodeAt(nodes, i)

\* The element line read is combined into the anchor and the binding cleared
CombinedIntoAnchor ==
    /\ activeTopbranchAnchor # Null
    /\ Len(nodes') = Len(nodes)
    /\ Len(blocks') = Len(blocks)
    /\ NodesKept({activeTopbranchAnchor})
    /\ activeTopbranchAnchor' = Null

\* The element line read creates nodes and a block, and touches no older node
CreatesNormally ==
    /\ Len(nodes') > Len(nodes)
    /\ Len(blocks') = Len(blocks) + 1
    /\ NodesKept({})

FirstElementIsCombined ==
    ElementRead => IF FirstOfBoundChild THEN CombinedIntoAnchor ELSE CreatesNormally

\* C26: after a BRANCH line bound a pending Topbranch call, exactly the first
\* element statement of the child (RCG, RLS, SWITCH or TRL) is combined into the
\* anchor node, creating no nodes and no block, and the binding is cleared;
\* every other element statement creates nodes normally and leaves the older
\* nodes as they were.
C26_FirstElementIsCombined == [][FirstElementIsCombined]_vars

(***************************************************************************)
(* C27: the run button after an ERROR message                              *)
(***************************************************************************)

\* The page took an ERROR message and the run button was not clicked since:
\* only the ERROR case writes 'Error' to the status box, every click overwrites it
ErrorShown == statusBox.text = "Error"

\* The step is a click on the run button
Clicked == clicks' = clicks + 1

\* The click posted a START command to the worker
PostedStart ==
    /\ Len(workerInbox') = Len(workerInbox) + 1
    /\ workerInbox'[Len(workerInbox')].command = "START"

ClickAfterErrorStarts ==
    (ErrorShown /\ Clicked) => (btnRunText = "RUN SIMULATION" /\ PostedStart)

\* C27: after the page received an ERROR message for a run, the next click on
\* the run button finds the button in its run state and sends a START command
\* with the deck of the editor to the worker.
C27_ClickAfterErrorStarts == [][ClickAfterErrorStarts]_vars

(***************************************************************************)
(* C28: the page after a click on STOP                                     *)
(***************************************************************************)

\* The page takes a PROGRESS or CSV_READY message of the worker
TakesResult ==
    /\ uiInbox # <<>>
    /\ Len(uiInbox') = Len(uiInbox) - 1
    /\ Head(uiInbox).type \in {"PROGRESS", "CSV_READY"}

\* The status box, the download button and the run button stay as they are
PageUntouched == UNCHANGED << statusBox, btnDownloadDisabled, btnRunText, btnRunDisabled >>

\* STOP was clicked and the run button was not clicked since: only that click
\* writes 'Stopped' to the status box, and every click overwrites it
StoppedShown == statusBox.text = "Stopped"

\* The message taken is of a run the worker was told to stop, and a run
\* started later is in progress
OfStoppedRunBehindNewer ==
    LET r == Head(uiInbox).run
    IN  /\ r < Len(runs)
        /\ runs[r].stopped
        /\ runs[Len(runs)].status \in {"looping", "waiting"}

StoppedRunIsSilent ==
    (TakesResult /\ (StoppedShown \/ OfStoppedRunBehindNewer)) => PageUntouched

\* C28: after a click on STOP the status box shows 'Stopped' until the next
\* START; no PROGRESS or CSV_READY message of the stopped run, posted before the
\* worker processed STOP or after a later START, changes the status box,
\* enables the download button or resets the run button.
C28_StoppedRunIsSilent == [][StoppedRunIsSilent]_vars

(***************************************************************************)
(* C29: compile on a CircuitCompiler that compiled before                  *)
(***************************************************************************)

\* The deck of the call of compile that is under way or has ended
DeckRead == [i \in 1 .. Len(lines) |-> lines[i].parts]

\* What a CircuitCompiler fresh from its constructor makes of the same deck
FreshCompile == compile(DeckRead)

\* C29: compile is a function of the deck alone: whatever the CircuitCompiler
\* compiled before, the nodes, output requests, dt and t_end it returns are the
\* ones a new CircuitCompiler returns for the same deck.
C29_CompileDependsOnDeckOnly ==
    pc = "returned" =>
        /\ FreshCompile.outcome = "ok"
        /\ nodes = FreshCompile.nodes
        /\ outputRequests = FreshCompile.outputRequests
        /\ dt = FreshCompile.dt
        /\ t_end = FreshCompile.t_end

(***************************************************************************)
(* C30: compile comes to an end                                            *)
(***************************************************************************)

\* The statement read last was left: its loop, if it has one, ended
LastLineLeft == Len(lines) > 0 => lines[Len(lines)].outcome \in {"ok", "thrown"}

\* C30: compile terminates on every finite deck: every statement appends
\* finitely many nodes and is left, so that compile goes on to the next line,
\* returns or throws, also for a TRL statement whose resolution in force is 0.
C30_CompileTerminates == pc # "hang" /\ LastLineLeft

====
